---- MODULE Spec2Model ----
(***************************************************************************)
(* Verification model of the invoice audit pipeline of scrutix-xp:         *)
(*   - the discrepancy engine      analyzeInvoice  (lib/audit-history.ts)  *)
(*   - the column matcher          detectColumns   (lib/csv-normalizer.ts) *)
(*   - the header locator          findHeaderRow   (lib/csv-normalizer.ts) *)
(*                                                                         *)
(* Numbers.  JavaScript numbers are modelled by exact fixed-point          *)
(* integers:                                                               *)
(*   money            in 1/10000 rupee  (45.00 rupees = 450000)            *)
(*   weights          in 1/10 kg        (1.0 kg = 10)                      *)
(*   zone rates       in whole rupees per kg                               *)
(*   cod_fee_percentage in 1/10 percent (1.5 % = 15)                       *)
(*   similarity scores as fractions <<numerator, denominator>>             *)
(* Strings that the code takes apart (headers, cells, issue labels) are    *)
(* sequences of one-character strings; strings that are only compared      *)
(* (OrderType, zones, AWB, canonical field names) are TLA+ strings.        *)
(***************************************************************************)
EXTENDS Integers, Sequences, FiniteSets, TLC

VARIABLES
    csvData,        \* analyzeInvoice: the canonical rows handed to the engine
    contractRules,  \* analyzeInvoice: the rate card
    analysis,       \* analyzeInvoice: the AnalysisResult, or NoResult before the run
    rawHeaders,     \* detectColumns: the raw header strings
    detection,      \* detectColumns: the DetectionResult, or NoResult before the run
    rows,           \* findHeaderRow: the raw 2-D grid
    headerIdx,      \* findHeaderRow: the returned index, or NoResult before the run
    rawRows,        \* applyMapping / normalizeRows: the rows handed in
    confirmedMapping, \* applyMapping: canonical field -> raw key or null
    mapped,         \* applyMapping: the returned rows, or NoResult before the run
    finalRows,      \* normalizeRows: the returned rows, or NoResult before the run
    record,         \* buildAuditRecord: the AuditRecord, or NoResult before the run
    stored,         \* localStorage: the item under "mosaic_audit_history", or null
    weightStored,   \* localStorage: the item under "mosaic_weight_data", or null
    storeStatus,    \* localStorage: how the store behaved during the last call
    raised,         \* whether the last call raised to its caller
    saveLog,        \* the records written since the last clear, in call order
    weightLog,      \* the weight points written since the last clear, in call order
    calls,          \* the number of calls made so far
    regressionPoints, \* runRegression: the points handed in
    regression,     \* runRegression: the returned value, or NoResult before the run
    lastMappedRows, \* page: the rows of the last runAnalysis, or null
    pendingRawRows, \* page: the raw rows waiting for the mapping dialog, or null
    pendingDetection, \* page: the detection shown in the mapping dialog, or null
    auditHistory,   \* page: the records shown by the analytics dashboard
    weightData,     \* page: the weight points shown by the analytics dashboard
    writers,        \* saveAuditRecord in two tabs: each tab's position and the list it read
    displayPoints,  \* sampleForDisplay: the returned points
    maxN,           \* sampleForDisplay: the largest number of points to return
    pc              \* "ready" before the operation has run, "done" after it returned;
                    \* for the store and the page, the call or handler outcome of the last step

\* the variables of the three pure operations above
engineVars == <<csvData, contractRules, analysis>>
matcherVars == <<rawHeaders, detection>>
headerVars == <<rows, headerIdx>>
\* the variables of the row pipeline
rowVars == <<rawRows, confirmedMapping, mapped, finalRows>>

\* the variables of the audit history
historyVars == <<record>>
\* the variables of the persistent store
storeVars == <<stored, weightStored, storeStatus, raised, saveLog, weightLog, calls>>
\* the variables of the weight regression
regressionVars == <<regressionPoints, regression>>
\* the variables of the tabs that save concurrently
writerVars == <<writers>>
\* the variables of the scatter-plot sampler
displayVars == <<displayPoints, maxN>>

\* the state of the page component
appVars == <<lastMappedRows, pendingRawRows, pendingDetection, auditHistory, weightData>>

vars == <<engineVars, matcherVars, headerVars, rowVars, historyVars, storeVars, regressionVars, appVars, writerVars, displayVars, pc>>

NoResult == "none"

\* the values of a group of variables in a specification that does not use them
EngineIdle == csvData = <<>> /\ contractRules = NoResult /\ analysis = NoResult
MatcherIdle == rawHeaders = <<>> /\ detection = NoResult
HeaderIdle == rows = <<>> /\ headerIdx = NoResult
RowsIdle == rawRows = <<>> /\ confirmedMapping = NoResult /\ mapped = NoResult /\ finalRows = NoResult
HistoryIdle == record = NoResult
StoreIdle ==
    /\ stored = NoResult /\ weightStored = NoResult /\ storeStatus = NoResult
    /\ raised = FALSE /\ saveLog = <<>> /\ weightLog = <<>> /\ calls = 0
RegressionIdle == regressionPoints = <<>> /\ regression = NoResult
Writers == {"tabA", "tabB"}
NoWriters == [w \in Writers |-> [at |-> "idle", existing |-> <<>>]]
WritersIdle == writers = NoWriters
\* const MAX_DISPLAY_POINTS = 300 of csv-normalizer.ts
MAX_DISPLAY_POINTS == 300
DisplayIdle == displayPoints = <<>> /\ maxN = MAX_DISPLAY_POINTS
AppIdle ==
    /\ lastMappedRows = NoResult /\ pendingRawRows = NoResult /\ pendingDetection = NoResult
    /\ auditHistory = <<>> /\ weightData = <<>>

\* ------------------------------------------------------------------------
\* Bounds of the model
\* ------------------------------------------------------------------------
MaxRows == 2        \* longest csvData list
MaxHeaders == 2     \* longest rawHeaders list
MaxGridRows == 3    \* longest grid handed to findHeaderRow

\* ------------------------------------------------------------------------
\* Generic helpers
\* ------------------------------------------------------------------------
\* All sequences over S of length 0..n
SeqsUpTo(S, n) == UNION {[1..k -> S] : k \in 0..n}

\* money units per rupee and per paisa
PerRupee == 100 * 100
PerPaisa == 10 * 10

\* Number(x.toFixed(2)): round to the nearest paisa, ties away from zero
toFixed2(x) ==
    IF x >= 0 THEN ((x + PerPaisa \div 2) \div PerPaisa) * PerPaisa
              ELSE -(((-x + PerPaisa \div 2) \div PerPaisa) * PerPaisa)

\* Array.prototype.join(", ") on a list of character sequences
RECURSIVE join(_, _)
join(parts, sep) ==
    IF Len(parts) = 0 THEN <<>>
    ELSE IF Len(parts) = 1 THEN parts[1]
    ELSE parts[1] \o sep \o join(Tail(parts), sep)

CommaSpace == <<",", " ">>

\* ------------------------------------------------------------------------
\* Discrepancy engine (lib/audit-history.ts, analyzeInvoice)
\* ------------------------------------------------------------------------
ZoneMismatch     == <<"Z","o","n","e"," ","M","i","s","m","a","t","c","h">>
WeightOvercharge == <<"W","e","i","g","h","t"," ","O","v","e","r","c","h","a","r","g","e">>
InvalidCODCharge == <<"I","n","v","a","l","i","d"," ","C","O","D"," ","C","h","a","r","g","e">>
RateOvercharge   == <<"R","a","t","e"," ","O","v","e","r","c","h","a","r","g","e">>

\* const ZONE_RATE_MAP: "A" -> zone_a_rate, "B" -> zone_b_rate, "C" -> zone_c_rate
ZONE_RATE_MAP ==
    [z \in {"A", "B", "C"} |->
        CASE z = "A" -> "zone_a_rate" [] z = "B" -> "zone_b_rate" [] z = "C" -> "zone_c_rate"]

\* mutant of baseRate: the rate is looked up by the billed zone
baseRate_byBilledZone(row, contract) ==
    IF row.BilledZone \in DOMAIN ZONE_RATE_MAP
    THEN contract[ZONE_RATE_MAP[row.BilledZone]]
    ELSE 0

\* mutant of baseRate: a zone outside the map is charged the zone-A rate
baseRate_defaultZoneA(row, contract) ==
    IF row.ActualZone \in DOMAIN ZONE_RATE_MAP
    THEN contract[ZONE_RATE_MAP[row.ActualZone]]
    ELSE contract.zone_a_rate

\* rateKey ? contractRules[rateKey] : 0
baseRate(row, contract) ==
    IF row.ActualZone \in DOMAIN ZONE_RATE_MAP
    THEN contract[ZONE_RATE_MAP[row.ActualZone]]
    ELSE 0

\* baseRate * billedWeight   (rupees/kg * tenths of kg -> money units)
expectedFreight(row, contract) ==
    baseRate(row, contract) * row.BilledWeight * (PerRupee \div 10)

\* expectedFreight + expectedFreight * cod_fee_percentage / 100 for COD rows
expectedTotal(row, contract) ==
    IF row.OrderType = "COD"
    THEN expectedFreight(row, contract)
         + (expectedFreight(row, contract) * contract.cod_fee_percentage) \div 1000
    ELSE expectedFreight(row, contract)

\* const difference = totalBilledAmount - expectedTotal
difference(row, contract) == row.TotalBilledAmount - expectedTotal(row, contract)

\* mutant of flagged: the tolerance test is "difference < 1"
flagged_inclusive(row, contract) == ~(difference(row, contract) < PerRupee)

\* if (difference <= 1) continue
flagged(row, contract) == ~(difference(row, contract) <= PerRupee)

\* mutant of reasons: the COD-charge check looks at COD rows instead of Prepaid rows
reasons_codOnCod(row, contract) ==
    LET r1 == IF row.BilledZone # row.ActualZone THEN <<ZoneMismatch>> ELSE <<>>
        r2 == IF row.BilledWeight > row.ActualWeight
              THEN Append(r1, WeightOvercharge) ELSE r1
        r3 == IF row.OrderType = "COD"
                 /\ row.TotalBilledAmount > expectedFreight(row, contract) + PerRupee
              THEN Append(r2, InvalidCODCharge) ELSE r2
    IN  IF Len(r3) = 0 THEN <<RateOvercharge>> ELSE r3

\* mutant of reasons: the weight check is made before the zone check
reasons_weightFirst(row, contract) ==
    LET r1 == IF row.BilledWeight > row.ActualWeight THEN <<WeightOvercharge>> ELSE <<>>
        r2 == IF row.BilledZone # row.ActualZone
              THEN Append(r1, ZoneMismatch) ELSE r1
        r3 == IF row.OrderType = "Prepaid"
                 /\ row.TotalBilledAmount > expectedFreight(row, contract) + PerRupee
              THEN Append(r2, InvalidCODCharge) ELSE r2
    IN  IF Len(r3) = 0 THEN <<RateOvercharge>> ELSE r3

\* the reasons list of one flagged row
reasons(row, contract) ==
    LET r1 == IF row.BilledZone # row.ActualZone THEN <<ZoneMismatch>> ELSE <<>>
        r2 == IF row.BilledWeight > row.ActualWeight
              THEN Append(r1, WeightOvercharge) ELSE r1
        r3 == IF row.OrderType = "Prepaid"
                 /\ row.TotalBilledAmount > expectedFreight(row, contract) + PerRupee
              THEN Append(r2, InvalidCODCharge) ELSE r2
    IN  IF Len(r3) = 0 THEN <<RateOvercharge>> ELSE r3

\* the Discrepancy pushed for one flagged row
makeDiscrepancy(row, contract) ==
    [ awb_number     |-> row.AWB,
      issue_type     |-> join(reasons(row, contract), CommaSpace),
      billed_amount  |-> row.TotalBilledAmount,
      correct_amount |-> toFixed2(expectedTotal(row, contract)),
      difference     |-> toFixed2(difference(row, contract)) ]

\* the for-loop of analyzeInvoice: discrepancies pushed for data[1..n]
RECURSIVE loopDiscrepancies(_, _)
loopDiscrepancies(data, contract) ==
    IF Len(data) = 0 THEN <<>>
    ELSE LET n    == Len(data)
             init == loopDiscrepancies(SubSeq(data, 1, n - 1), contract)
         IN  IF flagged(data[n], contract)
             THEN Append(init, makeDiscrepancy(data[n], contract))
             ELSE init

\* the for-loop of analyzeInvoice: totalBilled += totalBilledAmount
RECURSIVE loopTotalBilled(_)
loopTotalBilled(data) ==
    IF Len(data) = 0 THEN 0
    ELSE loopTotalBilled(SubSeq(data, 1, Len(data) - 1)) + data[Len(data)].TotalBilledAmount

\* discrepancies.reduce((sum, d) => sum + d.difference, 0)
RECURSIVE reduceDifference(_)
reduceDifference(ds) ==
    IF Len(ds) = 0 THEN 0
    ELSE reduceDifference(SubSeq(ds, 1, Len(ds) - 1)) + ds[Len(ds)].difference

\* sum of difference(row) over all rows, flagged or not
RECURSIVE sumAllDifferences(_, _)
sumAllDifferences(data, contract) ==
    IF Len(data) = 0 THEN 0
    ELSE sumAllDifferences(SubSeq(data, 1, Len(data) - 1), contract)
         + difference(data[Len(data)], contract)

\* sum of billed_amount over the discrepancies
RECURSIVE sumBilledOfDiscrepancies(_)
sumBilledOfDiscrepancies(ds) ==
    IF Len(ds) = 0 THEN 0
    ELSE sumBilledOfDiscrepancies(SubSeq(ds, 1, Len(ds) - 1)) + ds[Len(ds)].billed_amount

\* mutant of analyzeInvoice: the totals are taken over the flagged rows only
analyzeInvoice_flaggedTotals(data, contract) ==
    LET discrepancies == loopDiscrepancies(data, contract)
    IN  [ discrepancies   |-> discrepancies,
          totalOvercharge |-> toFixed2(reduceDifference(discrepancies)),
          totalRows       |-> Len(discrepancies),
          totalBilled     |-> toFixed2(sumBilledOfDiscrepancies(discrepancies)) ]

\* mutant of analyzeInvoice: the overcharge is accumulated before the tolerance test
analyzeInvoice_sumAllRows(data, contract) ==
    LET discrepancies == loopDiscrepancies(data, contract)
    IN  [ discrepancies   |-> discrepancies,
          totalOvercharge |-> toFixed2(sumAllDifferences(data, contract)),
          totalRows       |-> Len(data),
          totalBilled     |-> toFixed2(loopTotalBilled(data)) ]

analyzeInvoice(data, contract) ==
    LET discrepancies == loopDiscrepancies(data, contract)
    IN  [ discrepancies   |-> discrepancies,
          totalOvercharge |-> toFixed2(reduceDifference(discrepancies)),
          totalRows       |-> Len(data),
          totalBilled     |-> toFixed2(loopTotalBilled(data)) ]

\* The Delhivery preset / MOCK_CONTRACT rate card
DelhiveryContract ==
    [ zone_a_rate |-> 40, zone_b_rate |-> 55, zone_c_rate |-> 75,
      cod_fee_percentage |-> 15, rto_flat_fee |-> 30 ]

\* The Ecom Express preset rate card (COD fee 1.2 %)
EcomExpressContract ==
    [ zone_a_rate |-> 35, zone_b_rate |-> 48, zone_c_rate |-> 65,
      cod_fee_percentage |-> 12, rto_flat_fee |-> 25 ]

Contracts == {DelhiveryContract, EcomExpressContract}

Row(awb, ot, bw, aw, bz, az, amt) ==
    [ AWB |-> awb, OrderType |-> ot, BilledWeight |-> bw, ActualWeight |-> aw,
      BilledZone |-> bz, ActualZone |-> az, TotalBilledAmount |-> amt ]

\* Input rows: whole-paisa amounts around the tolerance boundary of the
\* Delhivery zone-A rate (41.00 / 41.01 Prepaid, 41.60 / 41.61 COD), an
\* under-billed amount, both order types, matching and mismatching zones and
\* weights, plus the two end-to-end rows of the specification, a zone-B COD
\* row whose expected total has a fraction of a paisa, a zone-C row, a row
\* whose ActualZone is not in the rate map and a row whose OrderType is
\* neither Prepaid nor COD.  No amount lies on a rounding tie, where binary
\* floating point and exact decimals could round differently.
GridRows ==
    { Row("G", ot, 10, aw, bz, "A", amt) :
        ot \in {"Prepaid", "COD"}, aw \in {10, 5}, bz \in {"A", "B"},
        amt \in {300000, 410000, 410100, 416000, 416100} }

SpecialRows ==
    { Row("X1", "Prepaid", 10, 10, "A", "A", 450000),
      Row("X2", "COD",     10, 10, "B", "A", 500000),
      Row("X3", "COD",      5, 10, "B", "B", 300000),
      Row("X5", "Prepaid", 10, 10, "C", "C", 800000),
      Row("X6", "Prepaid", 10, 10, "A", "Z", 10100),
      Row("X7", "RTO",     10, 10, "A", "A", 450000) }

RowDomain == GridRows \cup SpecialRows

AnalyzeInvoice ==
    /\ pc = "ready"
    /\ analysis' = analyzeInvoice(csvData, contractRules)
    /\ pc' = "done"
    /\ UNCHANGED <<csvData, contractRules, matcherVars, headerVars, rowVars, historyVars, storeVars, regressionVars, writerVars, displayVars, appVars>>

InitEngine ==
    /\ csvData \in SeqsUpTo(RowDomain, MaxRows)
    /\ contractRules \in Contracts
    /\ analysis = NoResult
    /\ MatcherIdle /\ HeaderIdle /\ RowsIdle /\ HistoryIdle /\ StoreIdle /\ RegressionIdle /\ WritersIdle /\ DisplayIdle /\ AppIdle
    /\ pc = "ready"

NextEngine == AnalyzeInvoice

SpecEngine == InitEngine /\ [][NextEngine]_vars

\* ------------------------------------------------------------------------
\* Properties of the discrepancy engine
\* ------------------------------------------------------------------------
\* The rate card entry of a zone, as the specification states it
SpecRate(zone, contract) ==
    CASE zone = "A" -> contract.zone_a_rate
      [] zone = "B" -> contract.zone_b_rate
      [] zone = "C" -> contract.zone_c_rate
      [] OTHER      -> 0

\* rate(ActualZone) * BilledWeight * (1 + codFeePct/100) for COD, else without the fee
SpecExpectedTotal(row, contract) ==
    LET freight == SpecRate(row.ActualZone, contract) * row.BilledWeight * 1000
    IN  IF row.OrderType = "COD"
        THEN (freight * (1000 + contract.cod_fee_percentage)) \div 1000
        ELSE freight

SpecOverTolerance(row) ==
    row.TotalBilledAmount - SpecExpectedTotal(row, contractRules) > PerRupee

\* the input rows the specification flags, in input order
SpecFlaggedRows == SelectSeq(csvData, SpecOverTolerance)

\* the label list the specification gives a flagged row
SpecLabel(row, contract) ==
    LET freight == SpecRate(row.ActualZone, contract) * row.BilledWeight * 1000
        zone   == IF row.BilledZone # row.ActualZone THEN <<ZoneMismatch>> ELSE <<>>
        weight == IF row.BilledWeight > row.ActualWeight THEN <<WeightOvercharge>> ELSE <<>>
        cod    == IF row.OrderType = "Prepaid" /\ row.TotalBilledAmount > freight + PerRupee
                  THEN <<InvalidCODCharge>> ELSE <<>>
        all    == zone \o weight \o cod
    IN  CASE Len(all) = 0 -> RateOvercharge
          [] Len(all) = 1 -> all[1]
          [] Len(all) = 2 -> all[1] \o <<",", " ">> \o all[2]
          [] Len(all) = 3 -> all[1] \o <<",", " ">> \o all[2] \o <<",", " ">> \o all[3]

\* sum of f[i] over i in 1..n
RECURSIVE SumTo(_, _)
SumTo(f, n) == IF n = 0 THEN 0 ELSE f[n] + SumTo(f, n - 1)

RowX1 == Row("X1", "Prepaid", 10, 10, "A", "A", 450000)
RowX2 == Row("X2", "COD", 10, 10, "B", "A", 500000)

\* C2 as stated: the row X1 (Prepaid, 1.0 kg, zone A/A, billed 45) under the
\* Delhivery contract yields exactly one Discrepancy labelled "Rate Overcharge"
\* with correct_amount 40.00 and difference 5.00.
C2_AsStated ==
    (pc = "done" /\ contractRules = DelhiveryContract /\ csvData = <<RowX1>>) =>
        /\ Len(analysis.discrepancies) = 1
        /\ analysis.discrepancies[1].issue_type = RateOvercharge
        /\ analysis.discrepancies[1].correct_amount = 40 * PerRupee
        /\ analysis.discrepancies[1].difference = 5 * PerRupee

\* C2 amended: the row X1 yields exactly one Discrepancy, labelled
\* "Invalid COD Charge" (the row is Prepaid and 45 > expectedFreight + 1 = 41;
\* no zone or weight check fires), with correct_amount 40.00 and difference 5.00.
C2_Amended ==
    (pc = "done" /\ contractRules = DelhiveryContract /\ csvData = <<RowX1>>) =>
        /\ Len(analysis.discrepancies) = 1
        /\ analysis.discrepancies[1].awb_number = "X1"
        /\ analysis.discrepancies[1].issue_type = InvalidCODCharge
        /\ analysis.discrepancies[1].correct_amount = 40 * PerRupee
        /\ analysis.discrepancies[1].difference = 5 * PerRupee

\* C2 witness: the row X1 was audited alone under the Delhivery contract
C2_Witness ==
    /\ pc = "done" /\ contractRules = DelhiveryContract /\ csvData = <<RowX1>>
    /\ Len(analysis.discrepancies) = 1

\* C3: the correct amount of every flagged row is the contract rate of its
\* ActualZone times BilledWeight, times (1 + cod_fee_percentage/100) exactly
\* when OrderType is COD (rounded to 2 decimals), and whether a row is flagged
\* is decided against that amount; the COD row X2 (billed zone B, actual zone
\* A, 1.0 kg, billed 50) under the Delhivery contract has correct amount 40.60,
\* difference 9.40 and the label "Zone Mismatch".
C3_ExpectedFromActualZone ==
    pc = "done" =>
        /\ Len(analysis.discrepancies) = Len(SpecFlaggedRows)
        /\ \A i \in 1..Len(SpecFlaggedRows) :
              /\ analysis.discrepancies[i].correct_amount
                    = toFixed2(SpecExpectedTotal(SpecFlaggedRows[i], contractRules))
              /\ analysis.discrepancies[i].difference
                    = toFixed2(SpecFlaggedRows[i].TotalBilledAmount
                               - SpecExpectedTotal(SpecFlaggedRows[i], contractRules))
        /\ (contractRules = DelhiveryContract /\ csvData = <<RowX2>>) =>
              analysis.discrepancies =
                  << [ awb_number |-> "X2", issue_type |-> ZoneMismatch,
                       billed_amount |-> 500000, correct_amount |-> 406000,
                       difference |-> 94000 ] >>

\* C3 witness: a flagged COD row whose billed zone has another rate than its
\* actual zone, together with the row X2 of the example
C3_Witness ==
    /\ pc = "done" /\ contractRules = DelhiveryContract
    /\ Len(csvData) = 2 /\ csvData[1] = RowX2
    /\ csvData[2].OrderType = "COD" /\ csvData[2].BilledZone # csvData[2].ActualZone
    /\ Len(analysis.discrepancies) = 2

\* C4: the issue label list of every flagged row is exactly the labels whose
\* check holds, in the order "Zone Mismatch", "Weight Overcharge", "Invalid
\* COD Charge", joined by ", ", and it is the single "Rate Overcharge" if and
\* only if none of the three checks holds.
C4_LabelList ==
    pc = "done" =>
        /\ Len(analysis.discrepancies) = Len(SpecFlaggedRows)
        /\ \A i \in 1..Len(SpecFlaggedRows) :
              LET row == SpecFlaggedRows[i]
                  none == /\ row.BilledZone = row.ActualZone
                          /\ ~(row.BilledWeight > row.ActualWeight)
                          /\ ~(/\ row.OrderType = "Prepaid"
                               /\ row.TotalBilledAmount >
                                     SpecRate(row.ActualZone, contractRules)
                                        * row.BilledWeight * 1000 + PerRupee)
              IN  /\ analysis.discrepancies[i].issue_type = SpecLabel(row, contractRules)
                  /\ (analysis.discrepancies[i].issue_type = RateOvercharge) <=> none

\* C4 witness: a row on which all three checks hold and a row on which none
\* holds were both flagged
C4_Witness ==
    /\ pc = "done"
    /\ Len(analysis.discrepancies) = 2
    /\ analysis.discrepancies[1].issue_type
          = ZoneMismatch \o <<",", " ">> \o WeightOvercharge \o <<",", " ">> \o InvalidCODCharge
    /\ analysis.discrepancies[2].issue_type = RateOvercharge

\* C5: totalRows is the number of input rows and totalBilled is the sum of
\* TotalBilledAmount over all input rows, flagged or clean.
C5_TotalsCoverAllRows ==
    pc = "done" =>
        /\ analysis.totalRows = Len(csvData)
        /\ analysis.totalBilled
              = SumTo([i \in 1..Len(csvData) |-> csvData[i].TotalBilledAmount], Len(csvData))

\* C5 witness: two rows were audited, one flagged and one clean
C5_Witness ==
    /\ pc = "done"
    /\ Len(csvData) = 2
    /\ Len(analysis.discrepancies) = 1
    /\ analysis.totalBilled > analysis.discrepancies[1].billed_amount

\* C6: totalOvercharge is the sum of the difference fields of exactly the
\* emitted discrepancies, rounded to 2 decimals; rows that were not flagged
\* contribute nothing; every emitted difference is positive.
C6_TotalOvercharge ==
    pc = "done" =>
        /\ analysis.totalOvercharge
              = toFixed2(SumTo([i \in 1..Len(analysis.discrepancies) |->
                                  analysis.discrepancies[i].difference],
                               Len(analysis.discrepancies)))
        /\ analysis.totalOvercharge
              = toFixed2(SumTo([i \in 1..Len(SpecFlaggedRows) |->
                                  toFixed2(SpecFlaggedRows[i].TotalBilledAmount
                                     - SpecExpectedTotal(SpecFlaggedRows[i], contractRules))],
                               Len(SpecFlaggedRows)))
        /\ \A i \in 1..Len(analysis.discrepancies) : analysis.discrepancies[i].difference > 0

\* C6 witness: an under-billed clean row and a flagged row whose difference
\* has a fraction of a paisa were audited
C6_Witness ==
    /\ pc = "done"
    /\ Len(csvData) = 2
    /\ csvData[1].TotalBilledAmount < SpecExpectedTotal(csvData[1], contractRules)
    /\ (csvData[2].TotalBilledAmount - SpecExpectedTotal(csvData[2], contractRules))
          % PerPaisa # 0
    /\ Len(analysis.discrepancies) = 1
    /\ analysis.totalOvercharge = analysis.discrepancies[1].difference

\* ------------------------------------------------------------------------
\* String helpers (JavaScript string methods on character sequences)
\* ------------------------------------------------------------------------
UpperCaseLetters ==
    <<"A","B","C","D","E","F","G","H","I","J","K","L","M",
      "N","O","P","Q","R","S","T","U","V","W","X","Y","Z">>
LowerCaseLetters ==
    <<"a","b","c","d","e","f","g","h","i","j","k","l","m",
      "n","o","p","q","r","s","t","u","v","w","x","y","z">>
Digits == {"0","1","2","3","4","5","6","7","8","9"}

\* String.prototype.toLowerCase
RECURSIVE toLowerCase(_)
toLowerCase(s) ==
    IF Len(s) = 0 THEN <<>>
    ELSE LET c == s[1]
             l == IF \E k \in 1..26 : UpperCaseLetters[k] = c
                  THEN LowerCaseLetters[CHOOSE k \in 1..26 : UpperCaseLetters[k] = c]
                  ELSE c
         IN  <<l>> \o toLowerCase(Tail(s))

\* String.prototype.includes
includes(s, sub) ==
    \E i \in 0..(Len(s) - Len(sub)) : SubSeq(s, i + 1, i + Len(sub)) = sub

\* String.prototype.trim (the only whitespace left after the replacements is " ")
RECURSIVE trimStart(_)
trimStart(s) == IF Len(s) > 0 /\ s[1] = " " THEN trimStart(Tail(s)) ELSE s
RECURSIVE trimEnd(_)
trimEnd(s) ==
    IF Len(s) > 0 /\ s[Len(s)] = " " THEN trimEnd(SubSeq(s, 1, Len(s) - 1)) ELSE s
trim(s) == trimEnd(trimStart(s))

\* .replace(/\s+/g, " ") on a string whose only whitespace is " "
RECURSIVE collapseSpaces(_)
collapseSpaces(s) ==
    IF Len(s) <= 1 THEN s
    ELSE IF s[1] = " " /\ s[2] = " " THEN collapseSpaces(Tail(s))
    ELSE <<s[1]>> \o collapseSpaces(Tail(s))

\* s.split(" ").filter(Boolean), as the set the code builds from it
wordSet(s) ==
    LET starts == { i \in 1..Len(s) : s[i] # " " /\ (i = 1 \/ s[i - 1] = " ") }
        endOf(i) == CHOOSE j \in i..Len(s) :
                        /\ \A k \in i..j : s[k] # " "
                        /\ (j = Len(s) \/ s[j + 1] = " ")
    IN  { SubSeq(s, i, endOf(i)) : i \in starts }

\* ------------------------------------------------------------------------
\* Column matcher (lib/csv-normalizer.ts, detectColumns)
\* ------------------------------------------------------------------------
\* Scores are exact fractions <<numerator, denominator>> with denominator > 0
Frac(n, d) == <<n, d>>
FracLess(x, y) == x[1] * y[2] < y[1] * x[2]
FracGeq(x, y) == ~FracLess(x, y)
FracEq(x, y) == x[1] * y[2] = y[1] * x[2]

\* the score below which a candidate pair is discarded (0.4)
MIN_SCORE == Frac(4, 10)
\* export const CONFIDENCE_THRESHOLD = 0.8
CONFIDENCE_THRESHOLD == Frac(8, 10)

\* the value of mapping[canonical] when no header was detected (null)
Null == <<"null">>

\* const VARIATIONS: canonical field -> known raw-header variations
VARIATIONS ==
    [ AWB |-> <<
          <<"a","w","b">>,
          <<"a","w","b"," ","n","o">>,
          <<"a","w","b"," ","n","u","m","b","e","r">>,
          <<"a","w","b","n","o">>,
          <<"a","w","b","n","u","m","b","e","r">>,
          <<"a","w","b","_","n","o">>,
          <<"a","i","r","w","a","y"," ","b","i","l","l">>,
          <<"a","i","r","w","a","y","b","i","l","l">>,
          <<"t","r","a","c","k","i","n","g"," ","n","u","m","b","e","r">>,
          <<"t","r","a","c","k","i","n","g"," ","n","o">>,
          <<"t","r","a","c","k","i","n","g","_","n","u","m","b","e","r">>,
          <<"s","h","i","p","m","e","n","t"," ","i","d">>,
          <<"c","o","n","s","i","g","n","m","e","n","t"," ","n","u","m","b","e","r">>,
          <<"c","o","n","s","i","g","n","m","e","n","t"," ","n","o">>,
          <<"w","a","y","b","i","l","l">>,
          <<"w","a","y"," ","b","i","l","l">>,
          <<"d","o","c","k","e","t"," ","n","u","m","b","e","r">>,
          <<"d","o","c","k","e","t"," ","n","o">>
        >>,
      OrderType |-> <<
          <<"o","r","d","e","r"," ","t","y","p","e">>,
          <<"o","r","d","e","r","t","y","p","e">>,
          <<"o","r","d","e","r","_","t","y","p","e">>,
          <<"t","y","p","e">>,
          <<"s","h","i","p","m","e","n","t"," ","t","y","p","e">>,
          <<"c","o","d"," ","p","r","e","p","a","i","d">>,
          <<"c","o","d","/","p","r","e","p","a","i","d">>,
          <<"p","a","y","m","e","n","t"," ","t","y","p","e">>,
          <<"d","e","l","i","v","e","r","y"," ","t","y","p","e">>,
          <<"s","e","r","v","i","c","e"," ","t","y","p","e">>,
          <<"m","o","d","e">>
        >>,
      BilledWeight |-> <<
          <<"b","i","l","l","e","d"," ","w","e","i","g","h","t">>,
          <<"b","i","l","l","e","d"," ","w","t">>,
          <<"b","i","l","l","e","d","_","w","e","i","g","h","t">>,
          <<"b","i","l","l","e","d","w","e","i","g","h","t">>,
          <<"c","h","a","r","g","e","d"," ","w","e","i","g","h","t">>,
          <<"c","h","a","r","g","e"," ","w","e","i","g","h","t">>,
          <<"i","n","v","o","i","c","e"," ","w","e","i","g","h","t">>,
          <<"i","n","v","o","i","c","e","d"," ","w","e","i","g","h","t">>,
          <<"c","h","a","r","g","e","a","b","l","e"," ","w","e","i","g","h","t">>,
          <<"c","h","a","r","g","e","a","b","l","e"," ","w","t">>,
          <<"a","p","p","l","i","c","a","b","l","e"," ","w","e","i","g","h","t">>
        >>,
      ActualWeight |-> <<
          <<"a","c","t","u","a","l"," ","w","e","i","g","h","t">>,
          <<"a","c","t","u","a","l"," ","w","t">>,
          <<"a","c","t","u","a","l","_","w","e","i","g","h","t">>,
          <<"a","c","t","u","a","l","w","e","i","g","h","t">>,
          <<"r","e","a","l"," ","w","e","i","g","h","t">>,
          <<"d","e","a","d"," ","w","e","i","g","h","t">>,
          <<"d","e","a","d"," ","w","t">>,
          <<"p","h","y","s","i","c","a","l"," ","w","e","i","g","h","t">>,
          <<"d","e","c","l","a","r","e","d"," ","w","e","i","g","h","t">>,
          <<"p","a","c","k","a","g","e"," ","w","e","i","g","h","t">>,
          <<"i","t","e","m"," ","w","e","i","g","h","t">>,
          <<"g","r","o","s","s"," ","w","e","i","g","h","t">>
        >>,
      BilledZone |-> <<
          <<"b","i","l","l","e","d"," ","z","o","n","e">>,
          <<"z","o","n","e">>,
          <<"d","e","l","i","v","e","r","y"," ","z","o","n","e">>,
          <<"s","h","i","p","m","e","n","t"," ","z","o","n","e">>,
          <<"c","h","a","r","g","e","d"," ","z","o","n","e">>,
          <<"i","n","v","o","i","c","e"," ","z","o","n","e">>,
          <<"b","i","l","l","i","n","g"," ","z","o","n","e">>,
          <<"s","e","r","v","i","c","e"," ","z","o","n","e">>,
          <<"a","p","p","l","i","c","a","b","l","e"," ","z","o","n","e">>
        >>,
      ActualZone |-> <<
          <<"a","c","t","u","a","l"," ","z","o","n","e">>,
          <<"a","c","t","u","a","l","_","z","o","n","e">>,
          <<"c","o","r","r","e","c","t"," ","z","o","n","e">>,
          <<"c","a","l","c","u","l","a","t","e","d"," ","z","o","n","e">>,
          <<"e","x","p","e","c","t","e","d"," ","z","o","n","e">>,
          <<"c","o","r","r","e","c","t","_","z","o","n","e">>
        >>,
      TotalBilledAmount |-> <<
          <<"t","o","t","a","l"," ","b","i","l","l","e","d"," ","a","m","o","u","n","t">>,
          <<"t","o","t","a","l">>,
          <<"i","n","v","o","i","c","e"," ","a","m","o","u","n","t">>,
          <<"b","i","l","l","e","d"," ","a","m","o","u","n","t">>,
          <<"a","m","o","u","n","t">>,
          <<"t","o","t","a","l"," ","a","m","o","u","n","t">>,
          <<"c","h","a","r","g","e","d"," ","a","m","o","u","n","t">>,
          <<"i","n","v","o","i","c","e"," ","t","o","t","a","l">>,
          <<"n","e","t"," ","a","m","o","u","n","t">>,
          <<"t","o","t","a","l"," ","c","h","a","r","g","e","s">>,
          <<"b","i","l","l","i","n","g"," ","a","m","o","u","n","t">>,
          <<"f","r","e","i","g","h","t"," ","c","h","a","r","g","e","s">>,
          <<"t","o","t","a","l"," ","f","r","e","i","g","h","t">>,
          <<"a","m","o","u","n","t"," ","p","a","y","a","b","l","e">>,
          <<"g","r","a","n","d"," ","t","o","t","a","l">>
        >>,
      Length |-> <<
          <<"l","e","n","g","t","h">>,
          <<"l","e","n">>,
          <<"p","k","g"," ","l","e","n","g","t","h">>,
          <<"p","a","c","k","a","g","e"," ","l","e","n","g","t","h">>,
          <<"l"," ","(","c","m",")">>,
          <<"l","e","n","g","t","h"," ","c","m">>,
          <<"l","e","n","g","t","h","(","c","m",")">>
        >>,
      Width |-> <<
          <<"w","i","d","t","h">>,
          <<"w","i","d">>,
          <<"p","k","g"," ","w","i","d","t","h">>,
          <<"p","a","c","k","a","g","e"," ","w","i","d","t","h">>,
          <<"w"," ","(","c","m",")">>,
          <<"w","i","d","t","h"," ","c","m">>,
          <<"w","i","d","t","h","(","c","m",")">>
        >>,
      Height |-> <<
          <<"h","e","i","g","h","t">>,
          <<"h","t">>,
          <<"p","k","g"," ","h","e","i","g","h","t">>,
          <<"p","a","c","k","a","g","e"," ","h","e","i","g","h","t">>,
          <<"h"," ","(","c","m",")">>,
          <<"h","e","i","g","h","t"," ","c","m">>,
          <<"h","e","i","g","h","t","(","c","m",")">>
        >>,
      OriginPincode |-> <<
          <<"o","r","i","g","i","n"," ","p","i","n","c","o","d","e">>,
          <<"o","r","i","g","i","n"," ","p","i","n">>,
          <<"o","r","i","g","i","n","_","p","i","n","c","o","d","e">>,
          <<"f","r","o","m"," ","p","i","n","c","o","d","e">>,
          <<"s","o","u","r","c","e"," ","p","i","n","c","o","d","e">>,
          <<"p","i","c","k","u","p"," ","p","i","n","c","o","d","e">>,
          <<"o","r","i","g","i","n"," ","p","i","n"," ","c","o","d","e">>,
          <<"s","e","n","d","e","r"," ","p","i","n","c","o","d","e">>,
          <<"s","o","u","r","c","e"," ","p","i","n">>,
          <<"f","r","o","m"," ","p","i","n">>,
          <<"o","r","i","g","i","n"," ","z","i","p">>,
          <<"p","i","c","k","u","p"," ","p","i","n">>
        >>,
      DestPincode |-> <<
          <<"d","e","s","t"," ","p","i","n","c","o","d","e">>,
          <<"d","e","s","t","i","n","a","t","i","o","n"," ","p","i","n","c","o","d","e">>,
          <<"d","e","s","t"," ","p","i","n">>,
          <<"d","e","s","t","i","n","a","t","i","o","n"," ","p","i","n">>,
          <<"t","o"," ","p","i","n","c","o","d","e">>,
          <<"d","e","l","i","v","e","r","y"," ","p","i","n","c","o","d","e">>,
          <<"d","e","s","t","_","p","i","n","c","o","d","e">>,
          <<"c","o","n","s","i","g","n","e","e"," ","p","i","n","c","o","d","e">>,
          <<"d","e","l","i","v","e","r","y"," ","p","i","n">>,
          <<"t","o"," ","p","i","n">>,
          <<"d","e","s","t"," ","z","i","p">>,
          <<"d","e","l","i","v","e","r","y"," ","z","i","p">>
        >>,
      CODAmount |-> <<
          <<"c","o","d"," ","a","m","o","u","n","t">>,
          <<"c","o","d"," ","c","h","a","r","g","e","s">>,
          <<"c","a","s","h"," ","o","n"," ","d","e","l","i","v","e","r","y">>,
          <<"c","o","d","_","a","m","o","u","n","t">>,
          <<"c","o","d"," ","f","e","e">>,
          <<"c","o","d"," ","v","a","l","u","e">>,
          <<"c","o","d"," ","c","h","a","r","g","e">>,
          <<"c","o","d">>
        >>,
      ShipmentDate |-> <<
          <<"s","h","i","p","m","e","n","t"," ","d","a","t","e">>,
          <<"d","a","t","e">>,
          <<"b","o","o","k","i","n","g"," ","d","a","t","e">>,
          <<"s","h","i","p"," ","d","a","t","e">>,
          <<"d","i","s","p","a","t","c","h"," ","d","a","t","e">>,
          <<"c","r","e","a","t","e","d"," ","d","a","t","e">>,
          <<"i","n","v","o","i","c","e"," ","d","a","t","e">>,
          <<"o","r","d","e","r"," ","d","a","t","e">>,
          <<"m","a","n","i","f","e","s","t"," ","d","a","t","e">>
        >> ]

\* the canonical field names as the strings handed to similarity()
CanonicalName ==
    [ AWB |-> <<"A","W","B">>,
      OrderType |-> <<"O","r","d","e","r","T","y","p","e">>,
      BilledWeight |-> <<"B","i","l","l","e","d","W","e","i","g","h","t">>,
      ActualWeight |-> <<"A","c","t","u","a","l","W","e","i","g","h","t">>,
      BilledZone |-> <<"B","i","l","l","e","d","Z","o","n","e">>,
      ActualZone |-> <<"A","c","t","u","a","l","Z","o","n","e">>,
      TotalBilledAmount |-> <<"T","o","t","a","l","B","i","l","l","e","d","A","m","o","u","n","t">>,
      Length |-> <<"L","e","n","g","t","h">>,
      Width |-> <<"W","i","d","t","h">>,
      Height |-> <<"H","e","i","g","h","t">>,
      OriginPincode |-> <<"O","r","i","g","i","n","P","i","n","c","o","d","e">>,
      DestPincode |-> <<"D","e","s","t","P","i","n","c","o","d","e">>,
      CODAmount |-> <<"C","O","D","A","m","o","u","n","t">>,
      ShipmentDate |-> <<"S","h","i","p","m","e","n","t","D","a","t","e">> ]

REQUIRED_CANONICAL ==
    <<"AWB", "OrderType", "BilledWeight", "ActualWeight",
      "BilledZone", "ActualZone", "TotalBilledAmount">>

OPTIONAL_CANONICAL ==
    <<"Length", "Width", "Height", "OriginPincode", "DestPincode",
      "CODAmount", "ShipmentDate">>

ALL_CANONICAL == REQUIRED_CANONICAL \o OPTIONAL_CANONICAL

\* .replace(/[^a-z0-9 ]/g, " ")
RECURSIVE replaceNonAlnum(_)
replaceNonAlnum(s) ==
    IF Len(s) = 0 THEN <<>>
    ELSE LET c == s[1]
             r == IF \/ \E k \in 1..26 : LowerCaseLetters[k] = c
                     \/ c \in Digits
                     \/ c = " "
                  THEN c ELSE " "
         IN  <<r>> \o replaceNonAlnum(Tail(s))

\* function normalise(s): lower case, non-alphanumerics to " ", collapse, trim
normalise(s) == trim(collapseSpaces(replaceNonAlnum(toLowerCase(s))))

Min3(x, y, z) ==
    IF x <= y /\ x <= z THEN x ELSE IF y <= z THEN y ELSE z

\* the array curr of levenshtein() for row i, filled up to index j
\* (JavaScript index k is position k + 1 here)
RECURSIVE levCurr(_, _, _, _, _)
levCurr(a, b, i, prev, j) ==
    IF j = 0 THEN <<i>>
    ELSE LET curr == levCurr(a, b, i, prev, j - 1)
         IN  Append(curr,
                    IF a[i] = b[j] THEN prev[j]
                    ELSE 1 + Min3(prev[j + 1], curr[j], prev[j]))

\* the array prev of levenshtein() after row i
RECURSIVE levPrev(_, _, _)
levPrev(a, b, i) ==
    IF i = 0 THEN [j \in 1..(Len(b) + 1) |-> j - 1]
    ELSE LET prev == levPrev(a, b, i - 1)
         IN  IF Len(prev) = Len(b) + 1   \* prev is complete before row i starts
             THEN levCurr(a, b, i, prev, Len(b))
             ELSE prev

levenshtein(a, b) == levPrev(a, b, Len(a))[Len(b) + 1]

\* the body of similarity() below its first two lines, on the normalised strings
similarityNormalised(na, nb) ==
    LET wa == wordSet(na)
        wb == wordSet(nb)
        intersection == Cardinality(wa \cap wb)
        union == Cardinality(wa \cup wb)
        dist == levenshtein(na, nb)
        maxLen == IF Len(na) >= Len(nb) THEN Len(na) ELSE Len(nb)
    IN  IF na = nb THEN Frac(1, 1)
        ELSE IF includes(na, nb) \/ includes(nb, na) THEN Frac(9, 10)
        ELSE IF intersection > 0
             THEN Frac(55 * union + 35 * intersection, 100 * union)
        ELSE IF maxLen = 0 THEN Frac(1, 1)
        ELSE IF dist >= maxLen THEN Frac(0, 1)
        ELSE Frac(maxLen - dist, maxLen)

\* export function similarity(a, b)
similarity(a, b) == similarityNormalised(normalise(a), normalise(b))

\* if (s > best) best = s
keepBest(best, s) == IF FracLess(best, s) THEN s ELSE best

\* the loop "for (const v of variations) if (s > best) best = s", up to variation n
RECURSIVE bestOver(_, _, _)
bestOver(raw, canonical, n) ==
    IF n = 0 THEN similarity(raw, CanonicalName[canonical])
    ELSE keepBest(bestOver(raw, canonical, n - 1),
                  similarity(raw, VARIATIONS[canonical][n]))

\* best score of a raw header for a canonical field
bestScore(raw, canonical) == bestOver(raw, canonical, Len(VARIATIONS[canonical]))


\* Raw header strings used as inputs
H_AwbNo         == <<"A","W","B"," ","N","o",".">>
H_OrderType     == <<"O","r","d","e","r"," ","T","y","p","e">>
H_BilledWeight  == <<"B","i","l","l","e","d"," ","W","e","i","g","h","t">>
H_ActualWeight  == <<"A","c","t","u","a","l"," ","W","e","i","g","h","t">>
H_BilledZone    == <<"B","i","l","l","e","d"," ","Z","o","n","e">>
H_ActualZone    == <<"A","c","t","u","a","l"," ","Z","o","n","e">>
H_TotalAmount   == <<"T","o","t","a","l"," ","A","m","o","u","n","t">>
H_Type          == <<"T","y","p","e">>
H_Weight        == <<"W","e","i","g","h","t">>
H_Zone          == <<"Z","o","n","e">>
H_Amount        == <<"A","m","o","u","n","t">>
H_Cod           == <<"C","O","D">>
H_Empty         == <<>>
H_OrderKind     == <<"O","r","d","e","r"," ","K","i","n","d">>
H_Remarks       == <<"R","e","m","a","r","k","s">>
H_ActualWt      == <<"A","c","t","u","a","l"," ","W","t">>

\* A header row that names every required field, a short carrier-style header
\* row (one "Weight" and one "Zone" column only), and no header row at all
FullHeaderRow ==
    <<H_AwbNo, H_OrderType, H_BilledWeight, H_ActualWeight, H_BilledZone,
      H_ActualZone, H_TotalAmount>>
ShortHeaderRow == <<H_AwbNo, H_Type, H_Weight, H_Zone, H_Amount>>
BaseHeaderRows == {<<>>, FullHeaderRow, ShortHeaderRow}

\* Further columns placed before or after a base row: contested headers
\* ("Weight", "Zone", "COD"), an empty header, a weak match, a header that
\* matches nothing and a good match for a field the short row lacks
ExtraHeaders == {H_Weight, H_Zone, H_Cod, H_Empty, H_OrderKind, H_Remarks, H_ActualWt}

HeaderInputs ==
    { base \o extra : base \in BaseHeaderRows, extra \in SeqsUpTo(ExtraHeaders, MaxHeaders) }
    \cup
    { extra \o base : base \in BaseHeaderRows, extra \in SeqsUpTo(ExtraHeaders, MaxHeaders) }

HeaderVocabulary ==
    ExtraHeaders \cup {FullHeaderRow[i] : i \in 1..Len(FullHeaderRow)}
                 \cup {ShortHeaderRow[i] : i \in 1..Len(ShortHeaderRow)}

CanonicalFields == {ALL_CANONICAL[k] : k \in 1..Len(ALL_CANONICAL)}

\* bestScore of every input header for every canonical field, computed once
ScoreTable ==
    [raw \in HeaderVocabulary |-> [c \in CanonicalFields |-> bestScore(raw, c)]]

\* if (best >= MIN_SCORE) candidates[canonical].push({ raw, score: best })
pushCandidate(before, raw, best) ==
    IF FracGeq(best, MIN_SCORE)
    THEN Append(before, [raw |-> raw, score |-> best])
    ELSE before

\* candidates[canonical] before sorting: the headers scoring >= 0.4, in header order
RECURSIVE pushCandidates(_, _, _)
pushCandidates(headers, canonical, n) ==
    IF n = 0 THEN <<>>
    ELSE pushCandidate(pushCandidates(headers, canonical, n - 1),
                       headers[n], ScoreTable[headers[n]][canonical])

\* mutant of insertByScore: the comparator is reversed (ascending scores)
RECURSIVE insertByScore_ascending(_, _)
insertByScore_ascending(sorted, c) ==
    IF Len(sorted) = 0 THEN <<c>>
    ELSE IF FracLess(c.score, sorted[1].score) THEN <<c>> \o sorted
    ELSE <<sorted[1]>> \o insertByScore_ascending(Tail(sorted), c)

\* insertion of one candidate behind every candidate that scores at least as
\* much (Array.prototype.sort is stable)
RECURSIVE insertByScore(_, _)
insertByScore(sorted, c) ==
    IF Len(sorted) = 0 THEN <<c>>
    ELSE IF FracLess(sorted[1].score, c.score) THEN <<c>> \o sorted
    ELSE <<sorted[1]>> \o insertByScore(Tail(sorted), c)

\* candidates[canonical].sort((a, b) => b.score - a.score)
RECURSIVE sortPrefix(_, _)
sortPrefix(list, n) ==
    IF n = 0 THEN <<>>
    ELSE insertByScore(sortPrefix(list, n - 1), list[n])
sortByScoreDesc(list) == sortPrefix(list, Len(list))

\* candidates[canonical] of detectColumns
candidates(headers, canonical) ==
    sortByScoreDesc(pushCandidates(headers, canonical, Len(headers)))

\* mutant of firstUnused: the claimed headers are not consulted
firstUnused_ignoreUsed(cands, used) == IF Len(cands) > 0 THEN 1 ELSE 0

\* candidates.find((c) => !usedRawHeaders.has(c.raw)): index of the first
\* unclaimed candidate, 0 when there is none
firstUnused(cands, used) ==
    IF \E i \in 1..Len(cands) : cands[i].raw \notin used
    THEN CHOOSE i \in 1..Len(cands) :
            /\ cands[i].raw \notin used
            /\ \A k \in 1..(i - 1) : cands[k].raw \in used
    ELSE 0

\* one pass of the greedy assignment loop: the field takes its best unclaimed
\* candidate, or null with confidence 0
assignField(acc, cands) ==
    LET top == firstUnused(cands, acc.usedRawHeaders)
    IN  IF top # 0
        THEN [ mapping        |-> Append(acc.mapping, cands[top].raw),
               confidences    |-> Append(acc.confidences, cands[top].score),
               usedRawHeaders |-> acc.usedRawHeaders \cup {cands[top].raw} ]
        ELSE [ mapping        |-> Append(acc.mapping, Null),
               confidences    |-> Append(acc.confidences, Frac(0, 1)),
               usedRawHeaders |-> acc.usedRawHeaders ]

\* the greedy assignment loop after the first n canonical fields
RECURSIVE assign(_, _)
assign(headers, n) ==
    IF n = 0
    THEN [ mapping |-> <<>>, confidences |-> <<>>, usedRawHeaders |-> {} ]
    ELSE assignField(assign(headers, n - 1), candidates(headers, ALL_CANONICAL[n]))

\* position of a canonical field in ALL_CANONICAL
fieldIndex(canonical) == CHOOSE k \in 1..Len(ALL_CANONICAL) : ALL_CANONICAL[k] = canonical

\* mutant of lowConfidenceFields: the filter runs over all canonical fields
lowConfidenceFields_overAll(mapping, confidences) ==
    LET isLow(f) == FracLess(confidences[f], CONFIDENCE_THRESHOLD) \/ mapping[f] = Null
    IN  SelectSeq(ALL_CANONICAL, isLow)

\* REQUIRED_CANONICAL.filter((f) => confidences[f] < CONFIDENCE_THRESHOLD || mapping[f] === null)
lowConfidenceFields(mapping, confidences) ==
    LET isLow(f) == FracLess(confidences[f], CONFIDENCE_THRESHOLD) \/ mapping[f] = Null
    IN  SelectSeq(REQUIRED_CANONICAL, isLow)

\* return { mapping, confidences, lowConfidenceFields, needsManualReview }
detectionResult(mapping, confidences, low) ==
    [ mapping             |-> mapping,
      confidences         |-> confidences,
      lowConfidenceFields |-> low,
      needsManualReview   |-> Len(low) > 0 ]

\* mapping and confidences as records keyed by canonical field
byField(list) == [c \in CanonicalFields |-> list[fieldIndex(c)]]

\* the statements of detectColumns after the assignment loop
detectionOf(mapping, confidences) ==
    detectionResult(mapping, confidences, lowConfidenceFields(mapping, confidences))

\* the same, from the lists the assignment loop filled
detectionFrom(a) == detectionOf(byField(a.mapping), byField(a.confidences))

\* export function detectColumns(rawHeaders): DetectionResult
detectColumns(headers) == detectionFrom(assign(headers, Len(ALL_CANONICAL)))

DetectColumns ==
    /\ pc = "ready"
    /\ detection' = detectColumns(rawHeaders)
    /\ pc' = "done"
    /\ UNCHANGED <<rawHeaders, engineVars, headerVars, rowVars, historyVars, storeVars, regressionVars, writerVars, displayVars, appVars>>

InitMatcher ==
    /\ rawHeaders \in HeaderInputs
    /\ detection = NoResult
    /\ EngineIdle /\ HeaderIdle /\ RowsIdle /\ HistoryIdle /\ StoreIdle /\ RegressionIdle /\ WritersIdle /\ DisplayIdle /\ AppIdle
    /\ pc = "ready"

NextMatcher == DetectColumns

SpecMatcher == InitMatcher /\ [][NextMatcher]_vars


\* ------------------------------------------------------------------------
\* Properties of the column matcher
\* ------------------------------------------------------------------------
\* the canonical fields in the order the specification fixes: required first
SpecFieldOrder ==
    <<"AWB", "OrderType", "BilledWeight", "ActualWeight", "BilledZone", "ActualZone",
      "TotalBilledAmount",
      "Length", "Width", "Height", "OriginPincode", "DestPincode", "CODAmount",
      "ShipmentDate">>

SpecRequiredFields ==
    {"AWB", "OrderType", "BilledWeight", "ActualWeight", "BilledZone", "ActualZone",
     "TotalBilledAmount"}

\* the scores of a raw header against the canonical name and every synonym
SpecScores(raw, canonical) ==
    {similarity(raw, CanonicalName[canonical])}
    \cup {similarity(raw, VARIATIONS[canonical][k]) : k \in 1..Len(VARIATIONS[canonical])}

\* the best of them, for every input header and field
SpecBestScore ==
    [raw \in HeaderVocabulary |->
        [c \in CanonicalFields |->
            LET scores == SpecScores(raw, c)
            IN  CHOOSE x \in scores : \A y \in scores : ~FracLess(x, y)]]

\* the headers a field may still take: score >= 0.40 and not claimed by an earlier field
SpecAvailable(k) ==
    { rawHeaders[i] : i \in
        { i \in 1..Len(rawHeaders) :
            /\ ~FracLess(SpecBestScore[rawHeaders[i]][SpecFieldOrder[k]], Frac(40, 100))
            /\ \A j \in 1..(k - 1) :
                  detection.mapping[SpecFieldOrder[j]] # rawHeaders[i] } }

\* C7: for any list of raw headers (including duplicates and empty strings)
\* the non-null values of the returned mapping are pairwise distinct.
C7_UniqueAssignment ==
    pc = "done" =>
        \A c1, c2 \in DOMAIN detection.mapping :
            (c1 # c2 /\ detection.mapping[c1] # Null /\ detection.mapping[c2] # Null)
                => detection.mapping[c1] # detection.mapping[c2]

\* C7 witness: a header list with a duplicated header and an empty header,
\* both of which score on several fields, was matched and both were assigned
C7_Witness ==
    /\ pc = "done"
    /\ \E i, j \in 1..Len(rawHeaders) :
          /\ i # j /\ rawHeaders[i] = rawHeaders[j] /\ rawHeaders[i] # H_Empty
          /\ \E c \in DOMAIN detection.mapping : detection.mapping[c] = rawHeaders[i]
          /\ Cardinality({c \in CanonicalFields :
                            ~FracLess(ScoreTable[rawHeaders[i]][c], MIN_SCORE)}) > 1
    /\ \E i \in 1..Len(rawHeaders) : rawHeaders[i] = H_Empty
    /\ \E c \in DOMAIN detection.mapping : detection.mapping[c] = H_Empty

\* C8: the canonical fields are processed in the fixed order required-then-
\* optional; each field gets a highest-scoring raw header (score >= 0.40, best
\* score over the canonical name and its synonyms) that no earlier field has
\* claimed, with that header's score as confidence; a field with no such
\* header is mapped to none with confidence 0.
C8_GreedyBestUnclaimed ==
    pc = "done" =>
        \A k \in 1..Len(SpecFieldOrder) :
            LET c == SpecFieldOrder[k]
            IN  IF SpecAvailable(k) = {}
                THEN /\ detection.mapping[c] = Null
                     /\ detection.confidences[c] = Frac(0, 1)
                ELSE /\ detection.mapping[c] \in SpecAvailable(k)
                     /\ \A h \in SpecAvailable(k) :
                           ~FracLess(SpecBestScore[detection.mapping[c]][c], SpecBestScore[h][c])
                     /\ FracEq(detection.confidences[c], SpecBestScore[detection.mapping[c]][c])

\* C8 witness: a header that scores best on an optional field was claimed by
\* an earlier required field, a field took a header that is not its first
\* candidate in header order, and a field was left without a header
C8_Witness ==
    /\ pc = "done"
    /\ detection.mapping["OrderType"] = H_Cod
    /\ detection.mapping["CODAmount"] = Null
    /\ \E k \in 1..Len(SpecFieldOrder) : \E i \in 1..Len(rawHeaders) :
          /\ detection.mapping[SpecFieldOrder[k]] # Null
          /\ rawHeaders[i] \in SpecAvailable(k)
          /\ FracLess(SpecBestScore[rawHeaders[i]][SpecFieldOrder[k]],
                      detection.confidences[SpecFieldOrder[k]])
          /\ \E i2 \in (i + 1)..Len(rawHeaders) :
                rawHeaders[i2] = detection.mapping[SpecFieldOrder[k]]

\* C22: each raw header that detectColumns assigns is assigned to the
\* canonical field on which it scores highest: no other canonical field gives
\* that header a higher score.
C22_HighestScoringField ==
    pc = "done" =>
        \A c \in CanonicalFields :
            detection.mapping[c] # Null =>
                \A other \in CanonicalFields :
                    ~FracLess(SpecBestScore[detection.mapping[c]][c],
                              SpecBestScore[detection.mapping[c]][other])

\* C9: lowConfidenceFields is exactly the set of required canonical fields
\* that are unmapped or whose confidence is below 0.80 (no optional field is
\* in it) and needsManualReview is true if and only if that set is non-empty.
C9_LowConfidenceFields ==
    pc = "done" =>
        LET low == { detection.lowConfidenceFields[i] :
                        i \in 1..Len(detection.lowConfidenceFields) }
            expected == { f \in SpecRequiredFields :
                            \/ detection.mapping[f] = Null
                            \/ FracLess(detection.confidences[f], Frac(80, 100)) }
        IN  /\ low = expected
            /\ Len(detection.lowConfidenceFields) = Cardinality(low)
            /\ detection.needsManualReview <=> (expected # {})

\* C9 witness: a result with a mapped required field below 0.80, an unmapped
\* required field, a required field at or above 0.80 and an optional field
\* that is unmapped
C9_Witness ==
    /\ pc = "done"
    /\ detection.needsManualReview
    /\ \E f \in SpecRequiredFields :
          /\ detection.mapping[f] # Null
          /\ FracLess(detection.confidences[f], Frac(80, 100))
          /\ \E i \in 1..Len(detection.lowConfidenceFields) : detection.lowConfidenceFields[i] = f
    /\ \E f \in SpecRequiredFields : detection.mapping[f] = Null
    /\ \E f \in SpecRequiredFields :
          /\ detection.mapping[f] # Null
          /\ ~FracLess(detection.confidences[f], Frac(80, 100))
    /\ \E f \in CanonicalFields \ SpecRequiredFields : detection.mapping[f] = Null

\* ------------------------------------------------------------------------
\* Header locator (lib/csv-normalizer.ts, findHeaderRow)
\* ------------------------------------------------------------------------
\* const HEADER_KEYWORDS
HEADER_KEYWORDS ==
    << <<"a","w","b">>,
       <<"z","o","n","e">>,
       <<"w","e","i","g","h","t">>,
       <<"a","m","o","u","n","t">>,
       <<"t","y","p","e">>,
       <<"o","r","d","e","r">>,
       <<"p","i","n","c","o","d","e">>,
       <<"d","a","t","e">>,
       <<"c","o","d">>,
       <<"s","h","i","p","m","e","n","t">>,
       <<"i","n","v","o","i","c","e">>,
       <<"b","i","l","l","e","d">>,
       <<"a","c","t","u","a","l">>,
       <<"f","r","e","i","g","h","t">>,
       <<"t","r","a","c","k","i","n","g">> >>

\* for (let i = 0; i < Math.min(rows.length, 10); i++): rows scanned at most
MAX_SCANNED_ROWS == 10
\* if (matchCount >= 4) break
STRONG_MATCH == 4

\* HEADER_KEYWORDS.filter(kw => cellsLower.some(cell => cell.includes(kw))).length
matchCount(row) ==
    Cardinality({ k \in 1..Len(HEADER_KEYWORDS) :
                    \E c \in 1..Len(row) :
                        includes(trim(toLowerCase(row[c])), HEADER_KEYWORDS[k]) })

\* Cell strings used in the input grids (headers are shared with the column matcher)
Cell_ReportGenerated  == <<"R","e","p","o","r","t"," ","G","e","n","e","r","a","t","e","d",":"," ","J","a","n"," ","2","0","2","4">>
Cell_Account          == <<"A","c","c","o","u","n","t",":"," ","X","Y","Z"," ","C","o","r","p">>
Cell_Title            == <<"S","h","i","p","m","e","n","t"," ","I","n","v","o","i","c","e"," ","-"," ","B","i","l","l","e","d"," ","A","m","o","u","n","t"," ","R","e","p","o","r","t">>
Cell_InvoiceDate      == <<"I","n","v","o","i","c","e"," ","D","a","t","e">>
Cell_Jan2024          == <<"J","a","n"," ","2","0","2","4">>
Cell_OrderTypeHdr     == <<"O","r","d","e","r"," ","T","y","p","e">>
Cell_BilledWeightHdr  == <<"B","i","l","l","e","d"," ","W","e","i","g","h","t">>
Cell_Tracking         == <<"T","r","a","c","k","i","n","g">>
Cell_Freight          == <<"F","r","e","i","g","h","t">>
Cell_Pincode          == <<"P","i","n","c","o","d","e">>
Cell_Date             == <<"D","a","t","e">>
Cell_Actual           == <<"A","c","t","u","a","l">>
Cell_12345            == <<"1","2","3","4","5">>
Cell_A                == <<"A">>
Cell_1p5              == <<"1",".","5">>

\* Grid rows: two single-cell metadata rows without keywords, a single-cell
\* title row that contains 4 keywords, a 2-cell metadata row with 2 keywords
\* whose second cell holds no keyword, the 3-keyword header row of the
\* specification's example, another 3-keyword row, two rows with at least 4
\* keywords, a data row and a row of two empty cells
Row_Meta1    == <<Cell_ReportGenerated>>
Row_Meta2    == <<Cell_Account>>
Row_Title    == <<Cell_Title>>
Row_MetaPair == <<Cell_InvoiceDate, Cell_Jan2024>>
Row_Header3  == <<H_AwbNo, H_Zone, H_Weight>>
Row_Other3   == <<Cell_Date, H_Type, Cell_Actual>>
Row_Header7  == <<H_AwbNo, Cell_OrderTypeHdr, Cell_BilledWeightHdr, H_Zone, H_Amount>>
Row_Header4  == <<Cell_Tracking, Cell_Freight, H_Cod, Cell_Pincode>>
Row_Data     == <<Cell_12345, Cell_A, Cell_1p5>>
Row_Blank    == <<H_Empty, H_Empty>>
Row_TitlePadded == <<Cell_Title, H_Empty>>

GridRowVocabulary ==
    { Row_Meta1, Row_Meta2, Row_Title, Row_MetaPair, Row_Header3, Row_Other3,
      Row_Header7, Row_Header4, Row_Data, Row_Blank, Row_TitlePadded }

\* matchCount of every input row, computed once
MatchCountTable == [row \in GridRowVocabulary |-> matchCount(row)]

\* if (!row || row.length < 2) continue
skipRow(row) == Len(row) < 2

\* mutant of isBetter: a row with the same count replaces the best row
isBetter_orEqual(count, bestMatches) == count >= bestMatches

\* if (matchCount > bestMatches)
isBetter(count, bestMatches) == count > bestMatches

\* matchCount(row), read from the table where the table has the row
matchCountOf(row) ==
    IF row \in GridRowVocabulary THEN MatchCountTable[row] ELSE matchCount(row)

\* the loop of findHeaderRow after the iterations i = 0 .. n-1
\* (row i of the code is grid[i + 1] here)
RECURSIVE scanRows(_, _)
scanRows(grid, n) ==
    IF n = 0 THEN [ bestIndex |-> 0, bestMatches |-> 0, stopped |-> FALSE ]
    ELSE LET s   == scanRows(grid, n - 1)
             row == grid[n]
             mc  == matchCountOf(row)
         IN  IF s.stopped \/ skipRow(row) THEN s
             ELSE [ bestIndex   |-> IF isBetter(mc, s.bestMatches) THEN n - 1 ELSE s.bestIndex,
                    bestMatches |-> IF isBetter(mc, s.bestMatches) THEN mc ELSE s.bestMatches,
                    stopped     |-> mc >= STRONG_MATCH ]

\* export function findHeaderRow(rows: string[][]): number
findHeaderRow(grid) ==
    scanRows(grid, IF Len(grid) < MAX_SCANNED_ROWS THEN Len(grid) ELSE MAX_SCANNED_ROWS).bestIndex

\* n rows of two empty cells
Blanks(n) == [i \in 1..n |-> Row_Blank]

\* Input grids: up to MaxGridRows rows of the vocabulary, at the top of the
\* sheet or pushed down by 8, 9 or 10 blank rows, so that rows fall on both
\* sides of the limit of 10 scanned rows
GridInputs ==
    { Blanks(k) \o tail : k \in {0, 8, 9, 10}, tail \in SeqsUpTo(GridRowVocabulary, MaxGridRows) }

FindHeaderRow ==
    /\ pc = "ready"
    /\ headerIdx' = findHeaderRow(rows)
    /\ pc' = "done"
    /\ UNCHANGED <<rows, engineVars, matcherVars, rowVars, historyVars, storeVars, regressionVars, writerVars, displayVars, appVars>>

InitHeader ==
    /\ rows \in GridInputs
    /\ headerIdx = NoResult
    /\ EngineIdle /\ MatcherIdle /\ RowsIdle /\ HistoryIdle /\ StoreIdle /\ RegressionIdle /\ WritersIdle /\ DisplayIdle /\ AppIdle
    /\ pc = "ready"

NextHeader == FindHeaderRow

SpecHeader == InitHeader /\ [][NextHeader]_vars


\* ------------------------------------------------------------------------
\* Properties of the header locator
\* ------------------------------------------------------------------------
\* number of distinct keywords that occur in some cell of a row (case-insensitive)
SpecKeywordCount ==
    [row \in GridRowVocabulary |->
        Cardinality({ kw \in { HEADER_KEYWORDS[k] : k \in 1..Len(HEADER_KEYWORDS) } :
                        \E c \in 1..Len(row) : includes(toLowerCase(row[c]), kw) })]

\* zero-based indices of the first 10 rows
SpecScanned == { i \in 0..9 : i < Len(rows) }

\* the index the selection rule gives when the rows in Considered take part:
\* the first row with at least 4 keywords if there is one, otherwise the
\* earliest row with the highest count, and 0 when no row matches a keyword
SpecHeaderIndex(Considered) ==
    LET count(i) == SpecKeywordCount[rows[i + 1]]
        strong   == { i \in Considered : count(i) >= 4 }
        matching == { i \in Considered : count(i) > 0 }
        best     == { i \in matching : \A j \in matching : count(j) <= count(i) }
    IN  IF strong # {} THEN CHOOSE i \in strong : \A j \in strong : i <= j
        ELSE IF matching # {} THEN CHOOSE i \in best : \A j \in best : i <= j
        ELSE 0

\* rows that hold a title or a metadata line in a single cell
SpecMetadataRows == {Row_Meta1, Row_Meta2, Row_Title}

\* C10 as stated: the returned index is the first of the first 10 rows that
\* matches at least 4 distinct keywords, otherwise the earliest row with the
\* highest count, and 0 when no row matches any keyword, every row of the
\* first 10 taking part; two metadata rows followed by the row "AWB No.",
\* "Zone", "Weight" give 2.
C10_AsStated ==
    pc = "done" =>
        /\ headerIdx \in Nat
        /\ headerIdx = SpecHeaderIndex(SpecScanned)
        /\ (/\ Len(rows) = 3
            /\ rows[1] \in SpecMetadataRows /\ rows[2] \in SpecMetadataRows
            /\ rows[3] = Row_Header3) => headerIdx = 2

\* C10 amended: the same selection rule holds among the rows of the first 10
\* that have at least 2 cells; a row with fewer than 2 cells is skipped
\* whatever keywords it contains.  findHeaderRow always returns an index, and
\* two single-cell metadata rows followed by the row "AWB No.", "Zone",
\* "Weight" give 2.
C10_SelectionAmongCandidates ==
    pc = "done" =>
        /\ headerIdx \in Nat
        /\ headerIdx = SpecHeaderIndex({ i \in SpecScanned : Len(rows[i + 1]) >= 2 })
        /\ (/\ Len(rows) = 3
            /\ rows[1] \in SpecMetadataRows /\ rows[2] \in SpecMetadataRows
            /\ rows[3] = Row_Header3) => headerIdx = 2

\* C10 witness: a single-cell title row with 4 keywords and a single-cell
\* metadata row are followed by the 3-keyword header row, which is returned
C10_Witness ==
    /\ pc = "done"
    /\ rows = <<Row_Title, Row_Meta2, Row_Header3>>
    /\ SpecKeywordCount[rows[1]] >= 4
    /\ headerIdx = 2

\* the number of cells of a row that are not empty
SpecNonEmptyCells(row) == Cardinality({ c \in 1..Len(row) : trim(row[c]) # <<>> })

\* the scanned rows with at least 2 non-empty cells
SpecCandidates == { i \in SpecScanned : SpecNonEmptyCells(rows[i + 1]) >= 2 }

\* C23: findHeaderRow never returns the index of a row that has fewer than 2
\* non-empty cells, except the default 0 when no row with at least 2
\* non-empty cells matches any keyword.
C23_TwoNonEmptyCells ==
    pc = "done" =>
        \/ headerIdx \in SpecCandidates
        \/ /\ headerIdx = 0
           /\ \A i \in SpecCandidates : SpecKeywordCount[rows[i + 1]] = 0


\* ------------------------------------------------------------------------
\* JavaScript values held by the cells of a row
\* ------------------------------------------------------------------------
\* a number is held in thousandths, so that the decimals of the inputs and
\* the division of whole grams by 1000 are exact
Unit == 10 * 10 * 10
Str(s) == [type |-> "string", val |-> s]      \* s is a sequence of characters
Num(n) == [type |-> "number", val |-> n]
NaN == [type |-> "NaN"]
NullValue == [type |-> "null"]
Undefined == [type |-> "undefined"]

\* v != null
notNullish(v) == v.type # "null" /\ v.type # "undefined"

\* row[key]: the value, or undefined when the row has no such key
get(row, key) == IF key \in DOMAIN row THEN row[key] ELSE Undefined

\* ------------------------------------------------------------------------
\* applyMapping (Mapping Applier)
\* ------------------------------------------------------------------------
\* if (rawKey && rawKey in row): null and "" are falsy
hasRawKey(rawKey, row) == rawKey # Null /\ rawKey # <<>> /\ rawKey \in DOMAIN row

\* the object "out" built for one row of rows.map(...); its keys are the
\* canonical names as strings
remap(row, mapping) ==
    LET copied == {c \in DOMAIN mapping : hasRawKey(mapping[c], row)}
    IN  [k \in {CanonicalName[c] : c \in copied}
            |-> row[mapping[CHOOSE c \in copied : CanonicalName[c] = k]]]

\* mutant of keepRow: a row with either mandatory field survives
keepRow_either(row) ==
    \/ notNullish(get(row, CanonicalName["AWB"]))
    \/ notNullish(get(row, CanonicalName["TotalBilledAmount"]))

\* (row) => row.AWB != null && row.TotalBilledAmount != null
keepRow(row) ==
    /\ notNullish(get(row, CanonicalName["AWB"]))
    /\ notNullish(get(row, CanonicalName["TotalBilledAmount"]))

\* export function applyMapping(rows, mapping)
applyMapping(rowList, mapping) ==
    LET remapped == [i \in 1..Len(rowList) |-> remap(rowList[i], mapping)]
    IN  SelectSeq(remapped, keepRow)

\* Inputs: raw rows keyed by the headers "AWB No.", "Amount", "Weight" and ""
MaxRawRows == 2     \* longest rawRows list

V_X1  == <<"X","1">>
V_45  == <<"4","5">>
V_1p5 == <<"1",".","5">>

RawRowInputs ==
    UNION {
      { (H_AwbNo :> a) @@ (H_Amount :> m) @@ (H_Weight :> Str(V_1p5)) :
            a \in {Str(V_X1), Str(<<>>), NullValue},
            m \in {Str(V_45), Num(45 * Unit), NullValue} },
      { (H_AwbNo :> a) @@ (H_Weight :> NullValue) : a \in {Str(V_X1), NullValue} },
      { (H_AwbNo :> Str(V_X1)) @@ (H_Empty :> Str(V_45)) },
      { (H_Amount :> Num(45 * Unit)) },
      { <<>> } }

MappingOf(awb, amount, weight) ==
    [c \in CanonicalFields |->
        IF c = "AWB" THEN awb
        ELSE IF c = "TotalBilledAmount" THEN amount
        ELSE IF c = "BilledWeight" THEN weight
        ELSE Null]

MappingInputs ==
    { MappingOf(a, m, w) : a \in {H_AwbNo, Null, H_Remarks},
                           m \in {H_Amount, Null, H_Empty},
                           w \in {H_Weight, Null, H_AwbNo} }
    \cup { [AWB |-> H_AwbNo, TotalBilledAmount |-> H_Amount] }

ApplyMapping ==
    /\ pc = "ready"
    /\ mapped' = applyMapping(rawRows, confirmedMapping)
    /\ pc' = "done"
    /\ UNCHANGED <<rawRows, confirmedMapping, finalRows, engineVars, matcherVars, headerVars, historyVars, storeVars, regressionVars, writerVars, displayVars, appVars>>

InitMapping ==
    /\ rawRows \in SeqsUpTo(RawRowInputs, MaxRawRows)
    /\ confirmedMapping \in MappingInputs
    /\ mapped = NoResult
    /\ finalRows = NoResult
    /\ EngineIdle /\ MatcherIdle /\ HeaderIdle /\ HistoryIdle /\ StoreIdle /\ RegressionIdle /\ WritersIdle /\ DisplayIdle /\ AppIdle
    /\ pc = "ready"

NextMapping == ApplyMapping

SpecMapping == InitMapping /\ [][NextMapping]_vars


\* ------------------------------------------------------------------------
\* Properties of the mapping applier
\* ------------------------------------------------------------------------
\* canonical field c has a raw key (neither null nor the empty string) that
\* the raw row holds
SpecCopied(row, c) ==
    /\ c \in DOMAIN confirmedMapping
    /\ confirmedMapping[c] # Null
    /\ confirmedMapping[c] # <<>>
    /\ confirmedMapping[c] \in DOMAIN row

\* the projection of a raw row: the copied fields under their canonical names
SpecProjected(row) ==
    [c \in {f \in DOMAIN confirmedMapping : SpecCopied(row, f)} |-> row[confirmedMapping[c]]]

\* the canonical field a key of a canonical row spells
SpecFieldOf(k) == CHOOSE c \in CanonicalFields : CanonicalName[c] = k

\* a field is present in a projected row: the key is there with a value that
\* is neither null nor undefined
SpecPresent(row, c) == c \in DOMAIN row /\ row[c].type \notin {"null", "undefined"}

\* the same for a row the program built, whose keys are strings
SpecHas(row, c) ==
    CanonicalName[c] \in DOMAIN row /\ row[CanonicalName[c]].type \notin {"null", "undefined"}

\* the input rows whose projection has both mandatory fields
SpecKeptIndices ==
    { i \in 1..Len(rawRows) :
        /\ SpecPresent(SpecProjected(rawRows[i]), "AWB")
        /\ SpecPresent(SpecProjected(rawRows[i]), "TotalBilledAmount") }

\* the k-th kept input row, in input order
SpecKeptIndex(k) ==
    CHOOSE i \in SpecKeptIndices : Cardinality({j \in SpecKeptIndices : j <= i}) = k

\* C11: applyMapping returns, in input order, exactly the projected rows in
\* which both AWB and TotalBilledAmount are present; the other rows are
\* dropped entirely; a kept row holds only canonical keys whose mapped raw
\* key is non-null and present in the raw row, with the raw row's value.
C11_MappedRows ==
    pc = "done" =>
        /\ Len(mapped) = Cardinality(SpecKeptIndices)
        /\ \A k \in 1..Len(mapped) :
              /\ DOMAIN mapped[k] \subseteq {CanonicalName[c] : c \in CanonicalFields}
              /\ {SpecFieldOf(key) : key \in DOMAIN mapped[k]}
                    = DOMAIN SpecProjected(rawRows[SpecKeptIndex(k)])
              /\ SpecHas(mapped[k], "AWB")
              /\ SpecHas(mapped[k], "TotalBilledAmount")
              /\ \A key \in DOMAIN mapped[k] :
                    /\ confirmedMapping[SpecFieldOf(key)] # Null
                    /\ confirmedMapping[SpecFieldOf(key)] \in DOMAIN rawRows[SpecKeptIndex(k)]
                    /\ mapped[k][key]
                          = rawRows[SpecKeptIndex(k)][confirmedMapping[SpecFieldOf(key)]]

\* C11 witness: of two rows the first has a null AWB and is dropped, the
\* second is kept with exactly its two mapped keys
C11_Witness ==
    /\ pc = "done"
    /\ Len(rawRows) = 2
    /\ H_AwbNo \in DOMAIN rawRows[1]
    /\ rawRows[1][H_AwbNo].type = "null"
    /\ Len(mapped) = 1
    /\ DOMAIN mapped[1] = {CanonicalName["AWB"], CanonicalName["TotalBilledAmount"]}
    /\ mapped[1][CanonicalName["AWB"]] = rawRows[2][H_AwbNo]


\* ------------------------------------------------------------------------
\* Value normalizers: normalizeWeight, normalizeAmount, normalizePincode
\* ------------------------------------------------------------------------
DigitChars == <<"0","1","2","3","4","5","6","7","8","9">>
digitValue(c) == (CHOOSE d \in 1..10 : DigitChars[d] = c) - 1

\* the length of the run of digits a string starts with (\d*)
RECURSIVE digitRun(_)
digitRun(s) == IF Len(s) > 0 /\ s[1] \in Digits THEN 1 + digitRun(Tail(s)) ELSE 0

\* the integer a string of digits denotes
RECURSIVE digitsValue(_)
digitsValue(t) ==
    IF Len(t) = 0 THEN 0
    ELSE digitsValue(SubSeq(t, 1, Len(t) - 1)) * 10 + digitValue(t[Len(t)])

RECURSIVE pow10(_)
pow10(n) == IF n = 0 THEN 1 ELSE 10 * pow10(n - 1)

\* the number denoted by digits, an optional "." and digits
\* (exact for up to 3 decimals)
decimalOf(intDigits, fracDigits) ==
    digitsValue(intDigits) * Unit + (digitsValue(fracDigits) * Unit) \div pow10(Len(fracDigits))

\* the length of the prefix of s that matches \d+\.?\d*, 0 when none does
numeralLenFrom(s, a) ==
    IF a = 0 THEN 0
    ELSE IF a < Len(s) /\ s[a + 1] = "."
         THEN a + 1 + digitRun(SubSeq(s, a + 2, Len(s)))
         ELSE a
numeralLen(s) == numeralLenFrom(s, digitRun(s))

\* the value of a string that matches \d+\.?\d* or \d*\.\d+
numeralValueAt(t, a) ==
    decimalOf(SubSeq(t, 1, a), IF a < Len(t) THEN SubSeq(t, a + 2, Len(t)) ELSE <<>>)
numeralValue(t) == numeralValueAt(t, digitRun(t))

\* parseFloat of an unsigned string: its longest prefix digits[.digits] or
\* .digits, NaN when there is none (inputs hold no exponent and no "Infinity")
parseUnsignedFrom(t, a, n) ==
    IF n = 0 THEN NaN
    ELSE IF n = 1 /\ a = 0 THEN NaN
    ELSE Num(numeralValue(SubSeq(t, 1, n)))
parseUnsignedAt(t, a) ==
    parseUnsignedFrom(t, a,
        IF a < Len(t) /\ t[a + 1] = "."
        THEN a + 1 + digitRun(SubSeq(t, a + 2, Len(t)))
        ELSE a)
parseUnsigned(t) == parseUnsignedAt(t, digitRun(t))

negate(v) == IF v.type = "number" THEN Num(0 - v.val) ELSE v

\* parseFloat(str): leading white space, an optional sign, a decimal prefix
parseFloatTrimmed(t) ==
    IF Len(t) > 0 /\ t[1] = "-" THEN negate(parseUnsigned(Tail(t)))
    ELSE IF Len(t) > 0 /\ t[1] = "+" THEN parseUnsigned(Tail(t))
    ELSE parseUnsigned(t)
parseFloat(str) == parseFloatTrimmed(trimStart(str))

\* isNaN(n) ? 0 : n
zeroIfNaN(n) == IF n.type = "NaN" THEN Num(0) ELSE n

\* s consists of letters of opts, each at most once, in the order of opts
RECURSIVE matchOptionals(_, _)
matchOptionals(s, opts) ==
    IF Len(s) = 0 THEN TRUE
    ELSE IF Len(opts) = 0 THEN FALSE
    ELSE IF s[1] = opts[1] THEN matchOptionals(Tail(s), Tail(opts))
    ELSE matchOptionals(s, Tail(opts))

\* the rest of str behind its numeral and the white space that follows (\s*)
unitSuffixAt(str, n) == trimStart(SubSeq(str, n + 1, Len(str)))

\* str.match(/^(\d+\.?\d*)\s*gr?a?m?s?$/)
gramSuffix(rest) ==
    Len(rest) > 0 /\ rest[1] = "g" /\ matchOptionals(Tail(rest), <<"r","a","m","s">>)
gramMatchAt(str, n) == n > 0 /\ gramSuffix(unitSuffixAt(str, n))
gramMatch(str) == gramMatchAt(str, numeralLen(str))

\* str.match(/^(\d+\.?\d*)\s*kgs?$/)
kgSuffix(rest) == rest = <<"k","g">> \/ rest = <<"k","g","s">>
kgMatchAt(str, n) == n > 0 /\ kgSuffix(unitSuffixAt(str, n))
kgMatch(str) == kgMatchAt(str, numeralLen(str))

\* parseFloat(match[1]): the numeral the pattern captured
capturedValue(str) == numeralValue(SubSeq(str, 1, numeralLen(str)))

\* normalizeWeight on the lower-cased, trimmed string
weightOfString(str) ==
    IF gramMatch(str) THEN Num(capturedValue(str) \div 1000)
    ELSE IF kgMatch(str) THEN Num(capturedValue(str))
    ELSE zeroIfNaN(parseFloat(str))

\* export function normalizeWeight(raw: unknown): number
normalizeWeight(raw) ==
    IF raw.type \in {"null", "undefined"} THEN Num(0)
    ELSE IF raw.type = "string" /\ raw.val = <<>> THEN Num(0)
    ELSE IF raw.type \in {"number", "NaN"} THEN raw
    ELSE weightOfString(trim(toLowerCase(raw.val)))


\* .replace(/[...]/g, ""): the characters of s outside the set removed
RECURSIVE removeChars(_, _)
removeChars(s, removed) ==
    IF Len(s) = 0 THEN <<>>
    ELSE IF s[1] \in removed THEN removeChars(Tail(s), removed)
    ELSE <<s[1]>> \o removeChars(Tail(s), removed)

\* the characters /[₹$€£,\s]/ removes (the only white space of the inputs is " ")
AMOUNT_NOISE == {"₹", "$", "€", "£", ",", " "}

\* export function normalizeAmount(raw: unknown): number
normalizeAmount(raw) ==
    IF raw.type \in {"null", "undefined"} THEN Num(0)
    ELSE IF raw.type = "string" /\ raw.val = <<>> THEN Num(0)
    ELSE IF raw.type \in {"number", "NaN"} THEN raw
    ELSE zeroIfNaN(parseFloat(trim(removeChars(raw.val, AMOUNT_NOISE))))

\* the decimal digits of a natural number
RECURSIVE digitsOf(_)
digitsOf(n) ==
    IF n < 10 THEN <<DigitChars[n + 1]>>
    ELSE Append(digitsOf(n \div 10), DigitChars[(n % 10) + 1])

\* the decimals of f / Unit without trailing zeros
RECURSIVE fractionDigits(_)
fractionDigits(f) ==
    IF f = 0 THEN <<>>
    ELSE <<DigitChars[((f * 10) \div Unit) + 1]>> \o fractionDigits((f * 10) % Unit)

\* Number.prototype.toString of a non-negative number held in thousandths
unsignedToString(n) ==
    digitsOf(n \div Unit)
       \o (IF n % Unit = 0 THEN <<>> ELSE <<".">> \o fractionDigits(n % Unit))

\* String(raw) of a value that is not null
toString(raw) ==
    IF raw.type = "string" THEN raw.val
    ELSE IF raw.type = "NaN" THEN <<"N","a","N">>
    ELSE IF raw.val < 0 THEN <<"-">> \o unsignedToString(0 - raw.val)
    ELSE unsignedToString(raw.val)

\* /^\d{6}$/.test(str)
sixDigits(str) == Len(str) = 6 /\ \A i \in 1..Len(str) : str[i] \in Digits

\* the last line of normalizePincode, on the string without white space
pincodeOf(str) == IF sixDigits(str) THEN Str(str) ELSE NullValue

\* export function normalizePincode(raw: unknown): string | null
normalizePincode(raw) ==
    IF raw.type \in {"null", "undefined"} THEN NullValue
    ELSE pincodeOf(removeChars(toString(raw), {" "}))

WEIGHT_KEYS ==
    { CanonicalName[c] : c \in {"BilledWeight", "ActualWeight", "Length", "Width", "Height"} }
AMOUNT_KEYS == { CanonicalName[c] : c \in {"TotalBilledAmount", "CODAmount"} }
PINCODE_KEYS == { CanonicalName[c] : c \in {"OriginPincode", "DestPincode"} }

\* mutant of pincodeKept: an invalid pincode stays in the row as null
pincodeKept_sentinel(p) == TRUE

\* if (p) out.X = p else delete out.X
pincodeKept(p) == p.type = "string" /\ p.val # <<>>

\* the value normalizeRows leaves under key k
normalizeField(k, v) ==
    IF k \in WEIGHT_KEYS THEN normalizeWeight(v)
    ELSE IF k \in AMOUNT_KEYS THEN normalizeAmount(v)
    ELSE IF k \in PINCODE_KEYS THEN normalizePincode(v)
    ELSE v

\* the object "out" of one row of normalizeRows
normalizeRow(row) ==
    [k \in {key \in DOMAIN row :
               key \in PINCODE_KEYS => pincodeKept(normalizePincode(row[key]))}
        |-> normalizeField(k, row[k])]

\* export function normalizeRows(rows)
normalizeRows(rowList) == [i \in 1..Len(rowList) |-> normalizeRow(rowList[i])]


\* Inputs of normalizeRows: rows keyed by canonical names, one field varied
\* at a time around a well-formed row
WeightInputs ==
    { Str(s) : s \in {
        <<"5","0","0","g">>,
        <<" ","7","5","0"," ","G","r","a","m","s"," ">>,
        <<"0",".","5"," ","k","g">>,
        <<"2","k","g","s">>,
        <<"1",".","5">>,
        <<"-","2">>,
        <<"a","b","c">>,
        <<"1","2","a","b","c">>,
        <<".","5","k","g">>,
        <<"5","g","m","r">>,
        <<>>,
        <<" ">> } }
    \cup { Num(1500), Num(0), Num(0 - 2000), NullValue }

AmountInputs ==
    { Str(s) : s \in {
        <<"₹","1",",","2","3","4",".","5","6">>,
        <<"$","5","5",".","0","0">>,
        <<"4","5">>,
        <<"-","5">>,
        <<"R","s","4","5">>,
        <<>> } }
    \cup { Num(45 * Unit), Num(0 - 5 * Unit), NullValue }

PincodeInputs ==
    { Str(s) : s \in {
        <<"1","1","0","0","0","1">>,
        <<"1","1","0"," ","0","0","1">>,
        <<" ","1","1","0","0","0","1"," ">>,
        <<"1","1","0","0">>,
        <<"1","1","0","0","0","a">>,
        <<"1","1","0","0","0","1","1">>,
        <<>> } }
    \cup { Num(110001 * Unit), Num(1100 * Unit), Num(110001 * Unit + 500), NullValue }

K_AWB == CanonicalName["AWB"]
K_BilledWeight == CanonicalName["BilledWeight"]
K_ActualWeight == CanonicalName["ActualWeight"]
K_TotalBilledAmount == CanonicalName["TotalBilledAmount"]
K_OriginPincode == CanonicalName["OriginPincode"]
K_DestPincode == CanonicalName["DestPincode"]

CanonicalRowOf(bw, aw, amount) ==
    (K_AWB :> Str(V_X1)) @@ (K_BilledWeight :> bw) @@ (K_ActualWeight :> aw)
        @@ (K_TotalBilledAmount :> amount)

CanonicalRowInputs ==
    { CanonicalRowOf(w, Num(1500), Str(V_45)) : w \in WeightInputs }
    \cup { CanonicalRowOf(Str(V_1p5), w, Str(V_45)) : w \in WeightInputs }
    \cup { CanonicalRowOf(Str(V_1p5), Num(1500), a) : a \in AmountInputs }
    \cup { CanonicalRowOf(Str(V_1p5), Num(1500), Str(V_45)) @@ (K_OriginPincode :> o)
              : o \in PincodeInputs }
    \cup { CanonicalRowOf(Str(V_1p5), Num(1500), Str(V_45)) @@ (K_OriginPincode :> o)
              @@ (K_DestPincode :> d)
              : o \in {Str(<<"1","1","0","0","0","1">>), Str(<<"1","1","0","0">>)},
                d \in {Str(<<"5","6","0"," ","0","0","1">>), Str(<<"5","6">>), NullValue} }
    \cup { (K_AWB :> Str(V_X1)) @@ (H_Remarks :> NullValue) }

NormalizeRows ==
    /\ pc = "ready"
    /\ finalRows' = normalizeRows(rawRows)
    /\ pc' = "done"
    /\ UNCHANGED <<rawRows, confirmedMapping, mapped, engineVars, matcherVars, headerVars, historyVars, storeVars, regressionVars, writerVars, displayVars, appVars>>

InitNormalize ==
    /\ rawRows \in SeqsUpTo(CanonicalRowInputs, MaxRawRows)
    /\ confirmedMapping = NoResult
    /\ mapped = NoResult
    /\ finalRows = NoResult
    /\ EngineIdle /\ MatcherIdle /\ HeaderIdle /\ HistoryIdle /\ StoreIdle /\ RegressionIdle /\ WritersIdle /\ DisplayIdle /\ AppIdle
    /\ pc = "ready"

NextNormalize == NormalizeRows

SpecNormalize == InitNormalize /\ [][NextNormalize]_vars


\* ------------------------------------------------------------------------
\* Properties of the value normalizer
\* ------------------------------------------------------------------------
SpecPincodeKeys ==
    { <<"O","r","i","g","i","n","P","i","n","c","o","d","e">>,
      <<"D","e","s","t","P","i","n","c","o","d","e">> }

SpecIsDigit(c) == c \in {"0","1","2","3","4","5","6","7","8","9"}

\* a string without its white space
SpecStripped(str) == SelectSeq(str, LAMBDA c : c # " ")

\* a raw value is a valid pincode: its text, white space stripped, is exactly
\* 6 digits (the text of a number is its decimal notation)
SpecValidPincode(v) ==
    \/ /\ v.type = "string"
       /\ Len(SpecStripped(v.val)) = 6
       /\ \A i \in 1..6 : SpecIsDigit(SpecStripped(v.val)[i])
    \/ /\ v.type = "number"
       /\ v.val % Unit = 0
       /\ v.val \div Unit >= 100000
       /\ v.val \div Unit <= 999999

\* C13: after normalizeRows every row keeps an OriginPincode / DestPincode key
\* only with a string of exactly 6 digits (the raw value, white space
\* stripped); an invalid pincode removes just that key; no other key is
\* removed and the number and order of the rows is unchanged.
C13_PincodeKeys ==
    pc = "done" =>
        /\ Len(finalRows) = Len(rawRows)
        /\ \A i \in 1..Len(rawRows) :
              /\ DOMAIN finalRows[i] \subseteq DOMAIN rawRows[i]
              /\ (DOMAIN rawRows[i] \ DOMAIN finalRows[i]) \subseteq SpecPincodeKeys
              /\ finalRows[i][K_AWB] = rawRows[i][K_AWB]
              /\ \A k \in SpecPincodeKeys \cap DOMAIN rawRows[i] :
                    /\ k \in DOMAIN finalRows[i] <=> SpecValidPincode(rawRows[i][k])
                    /\ k \in DOMAIN finalRows[i] =>
                          /\ finalRows[i][k].type = "string"
                          /\ Len(finalRows[i][k].val) = 6
                          /\ \A j \in 1..6 : SpecIsDigit(finalRows[i][k].val[j])
                          /\ rawRows[i][k].type = "string" =>
                                finalRows[i][k].val = SpecStripped(rawRows[i][k].val)

\* C13 witness: the first row lost its invalid OriginPincode and kept its
\* valid DestPincode, the second kept "110 001" as "110001"
C13_Witness ==
    /\ pc = "done"
    /\ Len(rawRows) = 2
    /\ K_OriginPincode \in DOMAIN rawRows[1]
    /\ K_OriginPincode \notin DOMAIN finalRows[1]
    /\ K_DestPincode \in DOMAIN finalRows[1]
    /\ K_OriginPincode \in DOMAIN rawRows[2]
    /\ rawRows[2][K_OriginPincode] = Str(<<"1","1","0"," ","0","0","1">>)
    /\ finalRows[2][K_OriginPincode] = Str(<<"1","1","0","0","0","1">>)


\* C14: after normalizeRows, BilledWeight and ActualWeight of every row are
\* kilogram numbers >= 0, whatever raw value was supplied.
C14_NonNegativeWeights ==
    pc = "done" =>
        \A i \in 1..Len(finalRows) :
            \A k \in {K_BilledWeight, K_ActualWeight} \cap DOMAIN finalRows[i] :
                /\ finalRows[i][k].type = "number"
                /\ finalRows[i][k].val >= 0


\* ------------------------------------------------------------------------
\* Audit history: categorizeOvercharge, buildAuditRecord
\* ------------------------------------------------------------------------
\* String.prototype.indexOf: position of the first occurrence of sep, 0 if none
indexOf(s, sep) ==
    IF includes(s, sep)
    THEN CHOOSE i \in 1..(Len(s) - Len(sep) + 1) :
            /\ SubSeq(s, i, i + Len(sep) - 1) = sep
            /\ \A j \in 1..(i - 1) : SubSeq(s, j, j + Len(sep) - 1) # sep
    ELSE 0

\* String.prototype.split with a non-empty separator
RECURSIVE split(_, _)
splitAt(s, sep, i) ==
    IF i = 0 THEN <<s>>
    ELSE <<SubSeq(s, 1, i - 1)>> \o split(SubSeq(s, i + Len(sep), Len(s)), sep)
split(s, sep) == splitAt(s, sep, indexOf(s, sep))

\* d.issue_type.split(", ").map((t) => t.trim())
typesOf(issue_type) ==
    [i \in 1..Len(split(issue_type, CommaSpace)) |-> trim(split(issue_type, CommaSpace)[i])]

BUCKETS == {"weightMismatch", "zoneMismatch", "duplicateAWB", "incorrectCOD", "rtoMismatch", "other"}

\* the if / else-if chain over lower = type.toLowerCase()
bucketOfLower(lower) ==
    IF includes(lower, <<"w","e","i","g","h","t">>) THEN "weightMismatch"
    ELSE IF includes(lower, <<"z","o","n","e">>) THEN "zoneMismatch"
    ELSE IF includes(lower, <<"d","u","p","l","i","c","a","t","e">>) THEN "duplicateAWB"
    ELSE IF includes(lower, <<"c","o","d">>) THEN "incorrectCOD"
    ELSE IF includes(lower, <<"r","t","o">>) THEN "rtoMismatch"
    ELSE "other"
bucketOf(type) == bucketOfLower(toLowerCase(type))

\* Shares are held in sixths of the money unit, so that a difference split
\* over 1, 2 or 3 labels is exact
ShareUnit == 2 * 3

\* mutant of share: every label receives the whole difference
share_undivided(d, n) == d.difference * ShareUnit

\* const share = d.difference / (types.length || 1)
share(d, n) == (d.difference * ShareUnit) \div (IF n = 0 THEN 1 ELSE n)

\* result[bucket] += share
addShare(result, bucket, amount) == [result EXCEPT ![bucket] = @ + amount]

\* for (const type of types) { ... }, over types[1..n]
RECURSIVE addTypes(_, _, _, _)
addTypes(result, types, amount, n) ==
    IF n = 0 THEN result
    ELSE addShare(addTypes(result, types, amount, n - 1), bucketOf(types[n]), amount)

\* the body of "for (const d of discrepancies)"
addDiscrepancy(result, d, types) == addTypes(result, types, share(d, Len(types)), Len(types))

\* the first loop of categorizeOvercharge: the bucket sums before rounding
RECURSIVE bucketSums(_)
bucketSums(ds) ==
    IF Len(ds) = 0 THEN [b \in BUCKETS |-> 0]
    ELSE addDiscrepancy(bucketSums(SubSeq(ds, 1, Len(ds) - 1)),
                        ds[Len(ds)], typesOf(ds[Len(ds)].issue_type))

\* Math.round(x * 100) / 100 of a sum held in sixths.  A sum that lies on half
\* a paisa is rounded by the floating-point product, which may land on either
\* side: both results are possible.
roundCents(x) ==
    LET paise == x \div (ShareUnit * PerPaisa)
        rest  == x % (ShareUnit * PerPaisa)
    IN  IF 2 * rest < ShareUnit * PerPaisa THEN {paise * PerPaisa}
        ELSE IF 2 * rest > ShareUnit * PerPaisa THEN {(paise + 1) * PerPaisa}
        ELSE {paise * PerPaisa, (paise + 1) * PerPaisa}

\* the second loop of categorizeOvercharge: every bucket rounded to 2 decimals
roundedBuckets(sums) ==
    { [ weightMismatch |-> w, zoneMismatch |-> z, duplicateAWB |-> d,
        incorrectCOD |-> c, rtoMismatch |-> r, other |-> o ] :
        w \in roundCents(sums.weightMismatch), z \in roundCents(sums.zoneMismatch),
        d \in roundCents(sums.duplicateAWB), c \in roundCents(sums.incorrectCOD),
        r \in roundCents(sums.rtoMismatch), o \in roundCents(sums.other) }

\* function categorizeOvercharge(discrepancies): the results it can return
categorizeOvercharge(ds) == roundedBuckets(bucketSums(ds))

\* Math.round(x * 100) / 100 of an amount that already has 2 decimals
roundAmount(x) == ((x + (PerPaisa \div 2)) \div PerPaisa) * PerPaisa

\* the AuditRecord of buildAuditRecord for one outcome of categorizeOvercharge
auditRecord(a, providerName, fileName, now, random, byType) ==
    [ id               |-> <<now, random>>,
      timestamp        |-> now,
      providerName     |-> providerName,
      fileName         |-> fileName,
      totalRows        |-> a.totalRows,
      totalBilled      |-> roundAmount(a.totalBilled),
      totalOvercharge  |-> roundAmount(a.totalOvercharge),
      flaggedLineItems |-> Len(a.discrepancies),
      overchargeByType |-> byType ]

\* export function buildAuditRecord(params): the records it can return
buildAuditRecord(a, providerName, fileName, now, random) ==
    { auditRecord(a, providerName, fileName, now, random, byType) :
        byType \in categorizeOvercharge(a.discrepancies) }


\* Inputs of buildAuditRecord: the results of analyzeInvoice on short invoices,
\* and results that carry the labels the OverchargeByType comments name
MaxDiscrepancies == 2   \* longest list of discrepancies given directly

RecordRows ==
    SpecialRows \cup { Row("G", "COD", 10, 5, "B", "A", 416100) }

LabelInputs ==
    { <<"D","u","p","l","i","c","a","t","e"," ","C","h","a","r","g","e">>,
      <<"R","T","O"," ","O","v","e","r","c","h","a","r","g","e">>,
      <<"W","e","i","g","h","t"," ","D","i","s","c","r","e","p","a","n","c","y">>,
      <<"N","o","n","-","c","o","n","t","r","a","c","t","e","d"," ","S","u","r","c","h","a","r","g","e">>,
      <<"R","T","O"," ","O","v","e","r","c","h","a","r","g","e",","," ","D","u","p","l","i","c","a","t","e"," ","C","h","a","r","g","e">>,
      <<"C","O","D"," ","W","e","i","g","h","t"," ","D","i","s","p","u","t","e">>,
      <<"Z","o","n","e"," ","M","i","s","m","a","t","c","h",","," "," ","D","u","p","l","i","c","a","t","e"," ","C","h","a","r","g","e",","," ","R","T","O"," ","O","v","e","r","c","h","a","r","g","e">>,
      <<>> }

discrepancyOf(label, d) ==
    [ awb_number |-> "D", issue_type |-> label, billed_amount |-> 100 * PerRupee,
      correct_amount |-> 100 * PerRupee - d, difference |-> d ]

\* every label with a difference of 1.01, whose half lies on half a paisa, and
\* the labels with several names with a difference of 2.50 as well
DiscrepancyInputs ==
    { discrepancyOf(l, 10100) : l \in LabelInputs }
    \cup { discrepancyOf(l, 25000) : l \in { m \in LabelInputs : includes(m, CommaSpace) } }

resultOf(ds) ==
    [ discrepancies   |-> ds,
      totalOvercharge |-> toFixed2(reduceDifference(ds)),
      totalRows       |-> Len(ds) + 1,
      totalBilled     |-> (Len(ds) + 1) * 100 * PerRupee ]

AnalysisInputs ==
    { analyzeInvoice(data, c) : data \in SeqsUpTo(RecordRows, MaxRows), c \in Contracts }
    \cup { resultOf(ds) : ds \in SeqsUpTo(DiscrepancyInputs, MaxDiscrepancies) }

BuildAuditRecord ==
    /\ pc = "ready"
    /\ \E r \in buildAuditRecord(analysis, "Delhivery", "invoice.csv", 1, "r") : record' = r
    /\ pc' = "done"
    /\ UNCHANGED <<engineVars, matcherVars, headerVars, rowVars, storeVars, regressionVars, writerVars, displayVars, appVars>>

InitRecord ==
    /\ analysis \in AnalysisInputs
    /\ csvData = <<>>
    /\ contractRules = NoResult
    /\ record = NoResult
    /\ MatcherIdle /\ HeaderIdle /\ RowsIdle /\ StoreIdle /\ RegressionIdle /\ WritersIdle /\ DisplayIdle /\ AppIdle
    /\ pc = "ready"

NextRecord == BuildAuditRecord

SpecRecord == InitRecord /\ [][NextRecord]_vars

\* ------------------------------------------------------------------------
\* Properties of the audit record
\* ------------------------------------------------------------------------
\* the positions at which the labels of a comma-joined issue start
SpecLabelStarts(issue) ==
    {1} \cup { i + 2 : i \in { j \in 1..(Len(issue) - 1) : issue[j] = "," /\ issue[j + 1] = " " } }

\* the label that starts at position i: up to the next ", " or the end
SpecLabelAt(issue, i) ==
    LET stops == { j \in i..(Len(issue) - 1) : issue[j] = "," /\ issue[j + 1] = " " }
    IN  IF stops = {} THEN SubSeq(issue, i, Len(issue))
        ELSE SubSeq(issue, i, (CHOOSE j \in stops : \A k \in stops : j <= k) - 1)

SpecBucketNames ==
    << <<"w","e","i","g","h","t">>, <<"z","o","n","e">>,
       <<"d","u","p","l","i","c","a","t","e">>, <<"c","o","d">>, <<"r","t","o">> >>
SpecBucketKeys == <<"weightMismatch", "zoneMismatch", "duplicateAWB", "incorrectCOD", "rtoMismatch">>

SpecOccursIn(name, lower) ==
    \E i \in 1..(Len(lower) - Len(name) + 1) :
        \A k \in 1..Len(name) : lower[i + k - 1] = name[k]

SpecFirstName(lower) ==
    CHOOSE n \in 1..5 :
        /\ SpecOccursIn(SpecBucketNames[n], lower)
        /\ \A m \in 1..(n - 1) : ~SpecOccursIn(SpecBucketNames[m], lower)

\* the bucket of a label: the first of weight, zone, duplicate, COD, RTO whose
\* name occurs in it whatever the case of its letters, else other
SpecBucketOf(label) ==
    IF \E n \in 1..5 : SpecOccursIn(SpecBucketNames[n], toLowerCase(label))
    THEN SpecBucketKeys[SpecFirstName(toLowerCase(label))]
    ELSE "other"

\* six times the amount bucket b receives from discrepancy d
SpecShareOf(d, b) ==
    Cardinality({ i \in SpecLabelStarts(d.issue_type) :
                    SpecBucketOf(SpecLabelAt(d.issue_type, i)) = b })
        * ((6 * d.difference) \div Cardinality(SpecLabelStarts(d.issue_type)))

\* six times the exact amount of bucket b
SpecBucketTotal(b) ==
    SumTo([i \in 1..Len(analysis.discrepancies) |-> SpecShareOf(analysis.discrepancies[i], b)],
          Len(analysis.discrepancies))

SpecAbs(x) == IF x < 0 THEN 0 - x ELSE x

\* C15: the six overchargeByType buckets of the AuditRecord sum to the run's
\* totalOvercharge within the rounding of six buckets (half a paisa each);
\* every bucket holds, within half a paisa, the even shares of the labels
\* whose first matching name (weight, zone, duplicate, COD, RTO, else other)
\* is that bucket.
C15_BucketsSumToTotal ==
    pc = "done" =>
        /\ SpecAbs(record.overchargeByType.weightMismatch + record.overchargeByType.zoneMismatch
                    + record.overchargeByType.duplicateAWB + record.overchargeByType.incorrectCOD
                    + record.overchargeByType.rtoMismatch + record.overchargeByType.other
                    - analysis.totalOvercharge) <= 3 * PerPaisa
        /\ record.totalOvercharge = analysis.totalOvercharge
        /\ \A b \in {"weightMismatch", "zoneMismatch", "duplicateAWB", "incorrectCOD",
                     "rtoMismatch", "other"} :
              2 * SpecAbs(6 * record.overchargeByType[b] - SpecBucketTotal(b)) <= 6 * PerPaisa

\* a discrepancy with two labels has been split over two buckets
C15_Witness ==
    /\ pc = "done"
    /\ \E i \in 1..Len(analysis.discrepancies) :
          Cardinality(SpecLabelStarts(analysis.discrepancies[i].issue_type)) = 2
    /\ record.overchargeByType.rtoMismatch > 0
    /\ record.overchargeByType.duplicateAWB > 0
    /\ record.overchargeByType.rtoMismatch + record.overchargeByType.duplicateAWB
          # analysis.totalOvercharge

\* ------------------------------------------------------------------------
\* Persistent store (lib/audit-history.ts saveAuditRecord, loadAuditHistory,
\* clearAuditHistory; lib/csv-normalizer.ts storeWeightData, loadWeightData)
\* ------------------------------------------------------------------------
\* How localStorage behaves during one synchronous call:
\*   "ok"          every access succeeds
\*   "full"        setItem throws QuotaExceededError, reads and removals succeed
\*   "unavailable" every access to localStorage throws
\*   "noWindow"    there is no window object (typeof window === "undefined")
StoreStatuses == {"ok", "full", "unavailable", "noWindow"}

\* const MAX_RECORDS = 500 of audit-history.ts
MAX_RECORDS == 500
\* const MAX_RECORDS = 10_000 of the weight store
MAX_WEIGHT_RECORDS == 10000

\* JSON.stringify / JSON.parse of a list of records whose fields are strings
\* and finite numbers: the text is held as the list it denotes
stringify(list) == [type |-> "json", value |-> list]
parse(raw) == raw.value

hasWindow(status) == status # "noWindow"
getItemThrows(status) == status = "unavailable"
\* mutant of setItemThrows: the write never fails
setItemThrows_never(status) == FALSE
setItemThrows(status) == status \in {"unavailable", "full"}
removeItemThrows(status) == status = "unavailable"

\* an exception thrown in a try block whose catch block is empty does not
\* reach the caller
escapes(thrown, caught) == thrown /\ ~caught

\* export function loadAuditHistory(): the catch returns [] as well
loadAuditHistory(item, status) ==
    IF ~hasWindow(status) THEN <<>>
    ELSE IF getItemThrows(status) THEN <<>>
    ELSE IF item = NullValue THEN <<>>
    ELSE parse(item)

\* mutant of slice: list.slice(0, k), the first k elements
slice_first(list, k) == IF Len(list) <= k THEN list ELSE SubSeq(list, 1, k)
\* list.slice(-k): the last k elements
slice(list, k) == IF Len(list) <= k THEN list ELSE SubSeq(list, Len(list) - k + 1, Len(list))

\* existing.push(record); const trimmed = existing.slice(-MAX_RECORDS)
trimmedHistory(existing, rec) == slice(Append(existing, rec), MAX_RECORDS)

\* whether saveAuditRecord reaches a setItem that succeeds
saveWrites(status) == hasWindow(status) /\ ~setItemThrows(status)

\* export function saveAuditRecord(record): the item in the store afterwards
saveAuditRecord(item, rec, status) ==
    IF saveWrites(status)
    THEN stringify(trimmedHistory(loadAuditHistory(item, status), rec))
    ELSE item

\* whether saveAuditRecord raises: its try block is followed by catch { }
saveAuditRecordRaises(status) == escapes(hasWindow(status) /\ setItemThrows(status), TRUE)

\* whether clearAuditHistory reaches a removeItem that succeeds
clearRemoves(status) == hasWindow(status) /\ ~removeItemThrows(status)

\* export function clearAuditHistory(): the item in the store afterwards
clearAuditHistory(item, status) == IF clearRemoves(status) THEN NullValue ELSE item

\* export function loadWeightData()
loadWeightData(item, status) ==
    IF ~hasWindow(status) THEN <<>>
    ELSE IF getItemThrows(status) THEN <<>>
    ELSE IF item = NullValue THEN <<>>
    ELSE parse(item)

\* [...existing, ...newPoints].slice(-MAX_RECORDS)
trimmedPoints(existing, newPoints) == slice(existing \o newPoints, MAX_WEIGHT_RECORDS)

\* mutant of storeWrites: an empty batch is written as well
storeWrites_emptyBatch(newPoints, status) ==
    hasWindow(status) /\ ~setItemThrows(status)

\* whether storeWeightData reaches a setItem that succeeds
storeWrites(newPoints, status) ==
    hasWindow(status) /\ Len(newPoints) # 0 /\ ~setItemThrows(status)

\* export function storeWeightData(newPoints): the item in the store afterwards
storeWeightData(item, newPoints, status) ==
    IF storeWrites(newPoints, status)
    THEN stringify(trimmedPoints(loadWeightData(item, status), newPoints))
    ELSE item

\* whether storeWeightData raises: its try block is followed by catch { }
storeWeightDataRaises(newPoints, status) ==
    escapes(hasWindow(status) /\ Len(newPoints) # 0 /\ setItemThrows(status), TRUE)

\* interface WeightDataPoint
WeightDataPoint(provider, awb, declared, billed, date) ==
    [ provider |-> provider, awb |-> awb, declaredWeight_g |-> declared,
      billedWeight_g |-> billed, date |-> date ]

\* Calls on the store.  The store starts empty or with a history written by
\* earlier calls: one record, one below the cap, or at the cap.
MaxCalls == 3   \* number of calls on the store in one behaviour

InitialLengths == {1, MAX_RECORDS - 1, MAX_RECORDS}

HistoryAnalyses ==
    { resultOf(<<>>), resultOf(<<discrepancyOf(WeightOvercharge, 10100)>>) }

\* the record of the k-th earlier audit
pastRecord(k) ==
    CHOOSE r \in buildAuditRecord(resultOf(<<>>), "Delhivery", "invoice.csv", k, "r") : TRUE
pastRecords(n) == [k \in 1..n |-> pastRecord(k)]

PointBatches ==
    { <<>>,
      <<WeightDataPoint("Delhivery", "X1", 1000, 1500, 1)>>,
      <<WeightDataPoint("Delhivery", "X1", 1000, 1500, 1),
        WeightDataPoint("Delhivery", "X2", 500, 500, 1)>> }

\* runAnalysis builds the record of the run and saves it
SaveAuditRecord ==
    /\ calls < MaxCalls
    /\ \E status \in StoreStatuses :
       \E r \in buildAuditRecord(analysis, "Delhivery", "invoice.csv", MAX_RECORDS + calls + 1, "r") :
          /\ record' = r
          /\ stored' = saveAuditRecord(stored, r, status)
          /\ raised' = saveAuditRecordRaises(status)
          /\ saveLog' = IF saveWrites(status) THEN Append(saveLog, r) ELSE saveLog
          /\ storeStatus' = status
    /\ calls' = calls + 1
    /\ pc' = "saved"
    /\ UNCHANGED <<engineVars, matcherVars, headerVars, rowVars, regressionVars, writerVars, displayVars, weightStored, weightLog, appVars>>

ClearAuditHistory ==
    /\ calls < MaxCalls
    /\ \E status \in StoreStatuses :
          /\ stored' = clearAuditHistory(stored, status)
          /\ saveLog' = IF clearRemoves(status) THEN <<>> ELSE saveLog
          /\ storeStatus' = status
    /\ raised' = FALSE
    /\ calls' = calls + 1
    /\ pc' = "cleared"
    /\ UNCHANGED <<engineVars, matcherVars, headerVars, rowVars, regressionVars, writerVars, displayVars, record, weightStored, weightLog, appVars>>

\* one call of storeWeightData with a batch drawn from Batches
storeWeightDataCall(Batches) ==
    /\ calls < MaxCalls
    /\ \E status \in StoreStatuses, newPoints \in Batches :
          /\ weightStored' = storeWeightData(weightStored, newPoints, status)
          /\ weightLog' = IF storeWrites(newPoints, status) THEN weightLog \o newPoints
                          ELSE weightLog
          /\ raised' = storeWeightDataRaises(newPoints, status)
          /\ storeStatus' = status
    /\ calls' = calls + 1
    /\ pc' = "storedWeights"
    /\ UNCHANGED <<engineVars, matcherVars, headerVars, rowVars, regressionVars, writerVars, displayVars, record, stored, saveLog, appVars>>

StoreWeightData == storeWeightDataCall(PointBatches)

InitHistory ==
    /\ analysis \in HistoryAnalyses
    /\ csvData = <<>>
    /\ contractRules = NoResult
    /\ record = NoResult
    /\ stored \in {NullValue} \cup { stringify(pastRecords(n)) : n \in InitialLengths }
    /\ saveLog = loadAuditHistory(stored, "ok")
    /\ weightStored \in {NullValue, stringify(<<WeightDataPoint("Delhivery", "X0", 1000, 1000, 0)>>)}
    /\ weightLog = loadWeightData(weightStored, "ok")
    /\ storeStatus = "ok"
    /\ raised = FALSE
    /\ calls = 0
    /\ MatcherIdle /\ HeaderIdle /\ RowsIdle /\ RegressionIdle /\ WritersIdle /\ DisplayIdle /\ AppIdle
    /\ pc = "ready"

NextHistory == SaveAuditRecord \/ ClearAuditHistory \/ StoreWeightData

SpecHistory == InitHistory /\ [][NextHistory]_vars

\* ------------------------------------------------------------------------
\* Properties of the persistent store
\* ------------------------------------------------------------------------
\* the persisted history as a list
SpecHistoryList == IF stored = NullValue THEN <<>> ELSE stored.value

SpecMin(a, b) == IF a < b THEN a ELSE b

\* C16: after any sequence of saveAuditRecord calls whose writes succeed, with
\* no clear in between, the persisted history holds at most 500 records and
\* is the most recent min(n, 500) saved records in save order (the new record
\* last, the oldest evicted first, stored records not modified or reordered).
C16_CappedFifo ==
    /\ Len(SpecHistoryList) <= 500
    /\ Len(SpecHistoryList) = SpecMin(Len(saveLog), 500)
    /\ \A i \in 1..Len(SpecHistoryList) :
          SpecHistoryList[i] = saveLog[Len(saveLog) - Len(SpecHistoryList) + i]

\* a save at the cap has evicted the oldest record and put the new one last
C16_Witness ==
    /\ pc = "saved"
    /\ Len(saveLog) > 500
    /\ Len(SpecHistoryList) = 500
    /\ SpecHistoryList[500] = record
    /\ SpecHistoryList[1] # saveLog[1]

pointsFrom(first, n) ==
    [k \in 1..n |-> WeightDataPoint("Delhivery", "P", 1000, 1500, first + k - 1)]

\* the stored list starts empty, with one point, one below the cap or at the cap
InitialWeightLengths == {1, MAX_WEIGHT_RECORDS - 1, MAX_WEIGHT_RECORDS}

\* batches of one audit: no point, one point, two points, and an import of
\* one point more than the cap
LargePointBatches ==
    PointBatches \cup { pointsFrom(2 * MAX_WEIGHT_RECORDS, MAX_WEIGHT_RECORDS + 1) }

StoreLargeWeightData == storeWeightDataCall(LargePointBatches)

InitWeights ==
    /\ weightStored \in {NullValue}
          \cup { stringify(pointsFrom(1, n)) : n \in InitialWeightLengths }
    /\ weightLog = loadWeightData(weightStored, "ok")
    /\ stored = NullValue
    /\ saveLog = <<>>
    /\ storeStatus = "ok"
    /\ raised = FALSE
    /\ calls = 0
    /\ EngineIdle /\ MatcherIdle /\ HeaderIdle /\ RowsIdle /\ HistoryIdle /\ RegressionIdle /\ WritersIdle /\ DisplayIdle /\ AppIdle
    /\ pc = "ready"

NextWeights == StoreLargeWeightData

SpecWeights == InitWeights /\ [][NextWeights]_vars

SpecWeightList == IF weightStored = NullValue THEN <<>> ELSE weightStored.value

\* C24: after any sequence of storeWeightData calls whose writes succeed, with
\* no clear in between, the persisted list holds at most 10,000 points and is
\* the last min(n, 10,000) points of the stored batches in order (oldest
\* evicted first, also inside one batch larger than the cap); a call with an
\* empty batch writes nothing.
C24_WeightCap ==
    /\ Len(SpecWeightList) <= 10000
    /\ Len(SpecWeightList) = SpecMin(Len(weightLog), 10000)
    /\ \A i \in 1..Len(SpecWeightList) :
          SpecWeightList[i] = weightLog[Len(weightLog) - Len(SpecWeightList) + i]
    /\ (weightLog = <<>>) => (weightStored = NullValue)

\* a batch larger than the cap was stored on a list at the cap: only its
\* last 10,000 points are kept
C24_Witness ==
    /\ pc = "storedWeights"
    /\ Len(weightLog) > 2 * 10000
    /\ Len(SpecWeightList) = 10000
    /\ SpecWeightList[1] = weightLog[Len(weightLog) - 10000 + 1]
    /\ SpecWeightList[1].date = 2 * 10000 + 1


\* ------------------------------------------------------------------------
\* Weight regression (lib/csv-normalizer.ts, runRegression)
\* ------------------------------------------------------------------------
\* The numbers of runRegression are held as exact fractions [p, q] with q > 0
\* in lowest terms; the weights of a WeightDataPoint are whole grams.
RECURSIVE gcd(_, _)
gcd(a, b) == IF b = 0 THEN a ELSE gcd(b, a % b)

absInt(a) == IF a < 0 THEN 0 - a ELSE a

\* the fraction p / q with q > 0 whose greatest common divisor is g
reduced(p, q, g) == [p |-> p \div g, q |-> q \div g]
Rat(p, q) ==
    IF q < 0 THEN reduced(0 - p, 0 - q, gcd(absInt(p), absInt(q)))
    ELSE reduced(p, q, gcd(absInt(p), q))
Whole(n) == [p |-> n, q |-> 1]

radd(a, b) == Rat(a.p * (b.q \div gcd(a.q, b.q)) + b.p * (a.q \div gcd(a.q, b.q)),
                  a.q * (b.q \div gcd(a.q, b.q)))
rsub(a, b) == radd(a, [p |-> 0 - b.p, q |-> b.q])
\* a * b, the common factors of a.p, b.q and of b.p, a.q removed first
rmulReduced(ap, aq, bp, bq) == Rat(ap * bp, aq * bq)
rmul(a, b) ==
    IF a.p = 0 \/ b.p = 0 THEN Whole(0)
    ELSE rmulReduced(a.p \div gcd(absInt(a.p), b.q), a.q \div gcd(absInt(b.p), a.q),
                     b.p \div gcd(absInt(b.p), a.q), b.q \div gcd(absInt(a.p), b.q))
\* a / b for b # 0
rdiv(a, b) == IF b.p < 0 THEN rmul(a, [p |-> 0 - b.q, q |-> 0 - b.p])
              ELSE rmul(a, [p |-> b.q, q |-> b.p])
rsquare(a) == [p |-> a.p * a.p, q |-> a.q * a.q]

\* floor(p * 10^k / q) and the remainder, by long division
RECURSIVE scaledDivision(_, _, _)
scaledDivision(p, q, k) ==
    IF k = 0 THEN [quot |-> p \div q, rem |-> p % q]
    ELSE [quot |-> scaledDivision(p, q, k - 1).quot * 10
                       + (scaledDivision(p, q, k - 1).rem * 10) \div q,
          rem  |-> (scaledDivision(p, q, k - 1).rem * 10) % q]

\* floor(x) + 1 when the fraction left over is a half or more
roundUpFrom(division, q) == division.quot + (IF 2 * division.rem >= q THEN 1 ELSE 0)

\* Math.round(v * 10^k): the nearest integer, a half rounded up
MathRound(v, k) == roundUpFrom(scaledDivision(v.p, v.q, k), v.q)

\* const MIN_POINTS_FOR_REGRESSION = 30
MIN_POINTS_FOR_REGRESSION == 30

\* The loops of runRegression add up one term per point.  The terms are exact
\* here, so the order of the additions does not change the sum: the range is
\* added up in halves.
RECURSIVE SumOver(_, _, _)
SumOver(f, lo, hi) ==
    IF lo > hi THEN 0
    ELSE IF lo = hi THEN f[lo]
    ELSE SumOver(f, lo, (lo + hi) \div 2) + SumOver(f, (lo + hi) \div 2 + 1, hi)
RECURSIVE rsumOver(_, _, _)
rsumOver(f, lo, hi) ==
    IF lo > hi THEN Whole(0)
    ELSE IF lo = hi THEN f[lo]
    ELSE radd(rsumOver(f, lo, (lo + hi) \div 2), rsumOver(f, (lo + hi) \div 2 + 1, hi))

\* the first loop of runRegression over points[1..n]
sumX(points, n) == SumOver([i \in 1..n |-> points[i].declaredWeight_g], 1, n)
sumY(points, n) == SumOver([i \in 1..n |-> points[i].billedWeight_g], 1, n)
\* mutant of sumXY: the first point is left out of the sum
sumXY_withoutFirst(points, n) ==
    SumTo([i \in 1..n |-> IF i = 1 THEN 0
                          ELSE points[i].declaredWeight_g * points[i].billedWeight_g], n)
sumXY(points, n) ==
    SumOver([i \in 1..n |-> points[i].declaredWeight_g * points[i].billedWeight_g], 1, n)
sumX2(points, n) ==
    SumOver([i \in 1..n |-> points[i].declaredWeight_g * points[i].declaredWeight_g], 1, n)

\* (p.billedWeight_g - p.declaredWeight_g) / p.declaredWeight_g
overchargeOf(point) ==
    Rat(point.billedWeight_g - point.declaredWeight_g, point.declaredWeight_g)

\* if (p.declaredWeight_g > 0) sumOverchargePct += ...
sumOverchargePct(points) ==
    rsumOver([i \in 1..Len(points) |->
                 IF points[i].declaredWeight_g > 0 THEN overchargeOf(points[i]) ELSE Whole(0)],
             1, Len(points))

\* const denom = n * sumX2 - sumX * sumX
denomOf(points) ==
    Len(points) * sumX2(points, Len(points))
        - sumX(points, Len(points)) * sumX(points, Len(points))

\* const m = (n * sumXY - sumX * sumY) / denom
slopeOf(points) ==
    Rat(Len(points) * sumXY(points, Len(points))
            - sumX(points, Len(points)) * sumY(points, Len(points)),
        denomOf(points))

\* const b = (sumY - m * sumX) / n
interceptOf(points, m) ==
    rdiv(rsub(Whole(sumY(points, Len(points))), rmul(m, Whole(sumX(points, Len(points))))),
         Whole(Len(points)))

\* const meanY = sumY / n
meanYOf(points) == Rat(sumY(points, Len(points)), Len(points))

\* ssTot += (y - meanY) ** 2
ssTot(points, meanY) ==
    rsumOver([i \in 1..Len(points) |-> rsquare(rsub(Whole(points[i].billedWeight_g), meanY))],
             1, Len(points))

\* const yHat = m * p.declaredWeight_g + b
yHat(point, m, b) == radd(rmul(m, Whole(point.declaredWeight_g)), b)

\* ssRes += (y - yHat) ** 2
ssRes(points, m, b) ==
    rsumOver([i \in 1..Len(points) |->
                 rsquare(rsub(Whole(points[i].billedWeight_g), yHat(points[i], m, b)))],
             1, Len(points))

\* const r2 = ssTot === 0 ? 1 : 1 - ssRes / ssTot
r2Of(tot, res) == IF tot.p = 0 THEN Whole(1) ELSE rsub(Whole(1), rdiv(res, tot))

\* Math.round(v * 10000), the value in units of 0.0001
round4(v) == MathRound(v, 4)
\* Math.round(v * 100), the value in units of 0.01
round2(v) == MathRound(v, 2)

\* sumOverchargePct / n
meanOvercharge(points, sum) == rdiv(sum, Whole(Len(points)))

\* the RegressionResult returned for a fitted line; slope and r2 in units of
\* 0.0001, intercept and avgOverchargePct in units of 0.01
regressionResult(points, m, b) ==
    [ provider         |-> points[1].provider,
      pointCount       |-> Len(points),
      slope            |-> round4(m),
      intercept        |-> round2(b),
      r2               |-> round4(r2Of(ssTot(points, meanYOf(points)), ssRes(points, m, b))),
      avgOverchargePct |-> round4(meanOvercharge(points, sumOverchargePct(points))) ]

fitted(points, m) == regressionResult(points, m, interceptOf(points, m))

\* mutant of runRegression: the minimum number of points is not required
runRegression_noMinimum(points) ==
    IF Len(points) = 0 THEN NullValue
    ELSE IF denomOf(points) = 0 THEN NullValue
    ELSE fitted(points, slopeOf(points))
\* export function runRegression(points): RegressionResult | null
runRegression(points) ==
    IF Len(points) < MIN_POINTS_FOR_REGRESSION THEN NullValue
    ELSE IF denomOf(points) = 0 THEN NullValue
    ELSE fitted(points, slopeOf(points))

\* Inputs of runRegression: lists made of runs of equal points, short of the
\* minimum, at it and beyond it
MaxExtra == 1   \* points beyond MIN_POINTS_FOR_REGRESSION in the second run

PointKinds ==
    { WeightDataPoint("Delhivery", "P", x, y, 1) :
        <<x, y>> \in { <<10, 11>>, <<20, 22>>, <<30, 33>>, <<20, 20>>, <<0, 5>>, <<10, 15>> } }

repeat(point, n) == [i \in 1..n |-> point]

onLine(list) ==
    \A i \in 1..Len(list) : 10 * list[i].billedWeight_g = 11 * list[i].declaredWeight_g
declaredWeights(list) == { list[i].declaredWeight_g : i \in 1..Len(list) }

\* up to three runs of equal points.  Lists off the line billed = 1.1 *
\* declared are kept when they have at most two distinct declared weights:
\* their sums of squares stay within the range of the integers of the model.
PointLists ==
    { list \in { repeat(pa, ka) \o repeat(pb, kb) \o repeat(pc2, kc) :
                    pa \in PointKinds, pb \in PointKinds, pc2 \in PointKinds,
                    ka \in {0, 1, MIN_POINTS_FOR_REGRESSION - 1, MIN_POINTS_FOR_REGRESSION},
                    kb \in 0..MaxExtra,
                    kc \in {0, 1} } :
        onLine(list) \/ Cardinality(declaredWeights(list)) <= 2 }

RunRegression ==
    /\ pc = "ready"
    /\ regression' = runRegression(regressionPoints)
    /\ pc' = "done"
    /\ UNCHANGED <<regressionPoints, engineVars, matcherVars, headerVars, rowVars, historyVars, storeVars, appVars, writerVars, displayVars>>

InitRegression ==
    /\ regressionPoints \in PointLists
    /\ regression = NoResult
    /\ EngineIdle /\ MatcherIdle /\ HeaderIdle /\ RowsIdle /\ HistoryIdle /\ StoreIdle /\ AppIdle /\ WritersIdle /\ DisplayIdle
    /\ pc = "ready"

NextRegression == RunRegression

SpecRegression == InitRegression /\ [][NextRegression]_vars

\* ------------------------------------------------------------------------
\* Properties of runRegression
\* ------------------------------------------------------------------------
SpecN == Len(regressionPoints)
SpecX(i) == regressionPoints[i].declaredWeight_g
SpecY(i) == regressionPoints[i].billedWeight_g
SpecSumX == SumTo([i \in 1..SpecN |-> SpecX(i)], SpecN)
SpecSumY == SumTo([i \in 1..SpecN |-> SpecY(i)], SpecN)
SpecSumXY == SumTo([i \in 1..SpecN |-> SpecX(i) * SpecY(i)], SpecN)
SpecSumXX == SumTo([i \in 1..SpecN |-> SpecX(i) * SpecX(i)], SpecN)
\* n * Sum(x^2) - (Sum x)^2
SpecDenominator == SpecN * SpecSumXX - SpecSumX * SpecSumX
SpecAllDeclaredEqual == \A i, j \in 1..SpecN : SpecX(i) = SpecX(j)

\* C18: runRegression returns null whenever it is given fewer than 30 points
\* or the denominator n * Sum(x^2) - (Sum x)^2 is zero (all declared weights
\* identical); otherwise it returns a result with finite statistics whose
\* pointCount is the number of points given.
C18_NoResultOrCount ==
    pc = "done" =>
        /\ (SpecDenominator = 0) <=> SpecAllDeclaredEqual
        /\ IF SpecN < 30 \/ SpecDenominator = 0
           THEN regression = NullValue
           ELSE /\ regression # NullValue
                /\ regression.pointCount = SpecN
                /\ regression.slope \in Int
                /\ regression.intercept \in Int
                /\ regression.r2 \in Int
                /\ regression.avgOverchargePct \in Int

\* at least 30 points with one declared weight: no result
C18_Witness ==
    /\ pc = "done"
    /\ SpecN >= 30
    /\ SpecAllDeclaredEqual
    /\ regression = NullValue

\* the points whose declared weight is positive
SpecPositive == { i \in 1..SpecN : SpecX(i) > 0 }

\* the sum of (billed - declared) / declared over the positive points, as a
\* fraction over 60, a multiple of every positive declared weight of the inputs
SpecOverchargeSum60 ==
    SumTo([i \in 1..SpecN |->
              IF SpecX(i) > 0 THEN ((SpecY(i) - SpecX(i)) * 60) \div SpecX(i) ELSE 0], SpecN)

\* C19: avgOverchargePct is the mean of (billed - declared) / declared * 100
\* over exactly the points whose declared weight is > 0, rounded to 2 decimals.
C19_MeanOverPositive ==
    (pc = "done" /\ regression # NullValue /\ SpecPositive # {}) =>
        regression.avgOverchargePct
            = MathRound(Rat(SpecOverchargeSum60, 60 * Cardinality(SpecPositive)), 4)

\* C20: at least 30 points with varying declared weights that lie exactly on
\* billed = 1.1 * declared give slope 1.1, intercept 0 and R^2 1.0; the slope
\* is the closed-form least-squares slope over all the points, rounded to 4
\* decimals.
C20_ExactLine ==
    (pc = "done" /\ regression # NullValue) =>
        /\ regression.slope
              = MathRound(Rat(SpecN * SpecSumXY - SpecSumX * SpecSumY, SpecDenominator), 4)
        /\ (onLine(regressionPoints) /\ SpecN >= 30 /\ ~SpecAllDeclaredEqual) =>
              /\ regression.slope = 11000
              /\ regression.intercept = 0
              /\ regression.r2 = 10000

\* at least 30 points on the line with three declared weights were fitted
C20_Witness ==
    /\ pc = "done"
    /\ SpecN >= 30
    /\ onLine(regressionPoints)
    /\ Cardinality(declaredWeights(regressionPoints)) = 3
    /\ regression # NullValue
    /\ regression.slope = 11000


\* ------------------------------------------------------------------------
\* The page (app/page.tsx): file upload, mapping dialog, PDF preview and
\* runAnalysis
\* ------------------------------------------------------------------------
MaxEvents == 3      \* number of handler calls in one behaviour

V_Prepaid == <<"P","r","e","p","a","i","d">>
V_100 == <<"1","0","0">>
V_X2 == <<"X","2">>
V_B == <<"B">>
V_C == <<"C">>

K_OrderType == CanonicalName["OrderType"]
K_BilledZone == CanonicalName["BilledZone"]
K_ActualZone == CanonicalName["ActualZone"]

\* how the store behaves during one handler call
AppStatuses == {"ok", "full"}

\* useState<...[] | null>: the rows held while the mapping dialog is open
Pending(rowList) == [type |-> "rows", val |-> rowList]

nonEmptyHeader(h) == Len(h) > 0

\* rawArrays[headerIdx].map((h) => String(h ?? "").trim()).filter(Boolean)
headersOf(headerRow) ==
    SelectSeq([i \in 1..Len(headerRow) |-> trim(headerRow[i])], nonEmptyHeader)

\* the last position of header h: a later header of the same name overwrites
lastIndexOf(headers, h) ==
    CHOOSE i \in 1..Len(headers) :
        headers[i] = h /\ \A j \in (i + 1)..Len(headers) : headers[j] # h

\* headers.forEach((h, i) => { obj[h] = row[i] ?? null })
rowObject(headers, row) ==
    [h \in {headers[i] : i \in 1..Len(headers)} |->
        IF lastIndexOf(headers, h) <= Len(row)
        THEN Str(row[lastIndexOf(headers, h)])
        ELSE NullValue]

\* Object.values(row).some((v) => v !== null && v !== "")
nonEmptyRow(obj) == \E k \in DOMAIN obj : obj[k] # NullValue /\ obj[k] # Str(<<>>)

\* rawArrays.slice(headerIdx + 1).map(...).filter(...); row idx of the code
\* is grid[idx + 1] here
rawRowsOf(grid, headers, idx) ==
    SelectSeq([i \in 1..(Len(grid) - idx - 1) |-> rowObject(headers, grid[idx + 1 + i])],
              nonEmptyRow)

\* REQUIRED_CANONICAL.every((col) => col in rawRows[0])
alreadyStandard(first) ==
    \A k \in 1..Len(REQUIRED_CANONICAL) : CanonicalName[REQUIRED_CANONICAL[k]] \in DOMAIN first

\* Number(v) of a field of a mapped row, in thousandths
numberOf(v) ==
    CASE v.type = "number" -> v.val
      [] v.type = "null" -> 0
      [] OTHER -> NaN

\* the order type or zone of a mapped row as the engine compares it
textOf(v) ==
    IF v.type # "string" THEN v.type
    ELSE CASE v.val = V_Prepaid -> "Prepaid"
           [] v.val = H_Cod -> "COD"
           [] v.val = Cell_A -> "A"
           [] v.val = V_B -> "B"
           [] v.val = V_C -> "C"
           [] OTHER -> "other"

\* one mapped row as analyzeInvoice reads it: weights in tenths of a kilogram,
\* the amount in money units
engineRow(row) ==
    Row(get(row, K_AWB),
        textOf(get(row, K_OrderType)),
        numberOf(get(row, K_BilledWeight)) \div (Unit \div 10),
        numberOf(get(row, K_ActualWeight)) \div (Unit \div 10),
        textOf(get(row, K_BilledZone)),
        textOf(get(row, K_ActualZone)),
        numberOf(get(row, K_TotalBilledAmount)) * (PerRupee \div Unit))

engineRows(mappedRows) == [i \in 1..Len(mappedRows) |-> engineRow(mappedRows[i])]

\* Number(row[key] ?? 0) > 0
positive(v) == v.type = "number" /\ v.val > 0

\* String(row["AWB"] ?? "")
awbText(v) == IF notNullish(v) THEN toString(v) ELSE <<>>

\* if (declared > 0 && billed > 0 && awb)
collected(row) ==
    /\ positive(get(row, K_ActualWeight))
    /\ positive(get(row, K_BilledWeight))
    /\ awbText(get(row, K_AWB)) # <<>>

\* newWeightPoints.push({...}): Math.round(kg * 1000) of a weight held in
\* thousandths of a kilogram is the value held
weightPointOf(row, provider, now) ==
    WeightDataPoint(provider, awbText(get(row, K_AWB)),
                    get(row, K_ActualWeight).val, get(row, K_BilledWeight).val, now)

\* the newWeightPoints of runAnalysis
newWeightPoints(mappedRows, provider, now) ==
    LET kept == SelectSeq(mappedRows, collected)
    IN  [i \in 1..Len(kept) |-> weightPointOf(kept[i], provider, now)]

\* mutant of runAnalysis: the record reaches the in-session history only when it was saved
runAnalysis_savedOnly(mappedRows, status) ==
    /\ csvData' = engineRows(mappedRows)
    /\ contractRules' = DelhiveryContract
    /\ analysis' = analyzeInvoice(csvData', contractRules')
    /\ lastMappedRows' = mappedRows
    /\ \E r \in buildAuditRecord(analysis', "Delhivery", "invoice.csv", calls + 1, "r") :
          /\ record' = r
          /\ stored' = saveAuditRecord(stored, r, status)
          /\ saveLog' = IF saveWrites(status) THEN Append(saveLog, r) ELSE saveLog
          /\ auditHistory' = IF saveWrites(status) THEN Append(auditHistory, r) ELSE auditHistory
    /\ weightStored' = storeWeightData(weightStored,
                                       newWeightPoints(mappedRows, "Delhivery", calls + 1), status)
    /\ weightLog' = IF storeWrites(newWeightPoints(mappedRows, "Delhivery", calls + 1), status)
                    THEN weightLog \o newWeightPoints(mappedRows, "Delhivery", calls + 1)
                    ELSE weightLog
    /\ weightData' = weightData \o newWeightPoints(mappedRows, "Delhivery", calls + 1)
    /\ storeStatus' = status
    /\ raised' = FALSE

\* function runAnalysis(mappedRows, fileNameHint)
runAnalysis(mappedRows, status) ==
    /\ csvData' = engineRows(mappedRows)
    /\ contractRules' = DelhiveryContract
    /\ analysis' = analyzeInvoice(csvData', contractRules')
    /\ lastMappedRows' = mappedRows
    /\ \E r \in buildAuditRecord(analysis', "Delhivery", "invoice.csv", calls + 1, "r") :
          /\ record' = r
          /\ stored' = saveAuditRecord(stored, r, status)
          /\ saveLog' = IF saveWrites(status) THEN Append(saveLog, r) ELSE saveLog
          /\ auditHistory' = Append(auditHistory, r)
    /\ weightStored' = storeWeightData(weightStored,
                                       newWeightPoints(mappedRows, "Delhivery", calls + 1), status)
    /\ weightLog' = IF storeWrites(newWeightPoints(mappedRows, "Delhivery", calls + 1), status)
                    THEN weightLog \o newWeightPoints(mappedRows, "Delhivery", calls + 1)
                    ELSE weightLog
    /\ weightData' = weightData \o newWeightPoints(mappedRows, "Delhivery", calls + 1)
    /\ storeStatus' = status
    /\ raised' = FALSE

\* the return points of the handlers after which an audit has run
AuditOutcomes == {"fastPath", "autoMapped", "confirmed", "previewDirect"}

\* a handler that ends in runAnalysis without touching the mapping dialog
analysed(mappedRows, status, outcome) ==
    /\ runAnalysis(mappedRows, status)
    /\ pc' = outcome
    /\ UNCHANGED <<pendingRawRows, pendingDetection>>

\* handleFileUpload returning after a toast: only setAnalysisResults(null) acted
uploadRejected ==
    /\ analysis' = NullValue
    /\ pc' = "rejected"
    /\ UNCHANGED <<csvData, contractRules, appVars, historyVars, storeStatus, raised,
                   stored, weightStored, saveLog, weightLog>>

\* step 5 of handleFileUpload: the mapping dialog is opened
uploadPending(rawRowList, det) ==
    /\ analysis' = NullValue
    /\ pendingRawRows' = Pending(rawRowList)
    /\ pendingDetection' = det
    /\ pc' = "pending"
    /\ UNCHANGED <<csvData, contractRules, lastMappedRows, auditHistory, weightData,
                   historyVars, storeStatus, raised, stored, weightStored, saveLog, weightLog>>

\* step 4 of handleFileUpload once the mapped rows are known
uploadMapped(rawRowList, det, final, status) ==
    IF ~det.needsManualReview /\ Len(final) > 0
    THEN analysed(final, status, "autoMapped")
    ELSE uploadPending(rawRowList, det)

uploadDetected(rawRowList, det, status) ==
    uploadMapped(rawRowList, det, normalizeRows(applyMapping(rawRowList, det.mapping)), status)

\* steps 3 to 5 of handleFileUpload
uploadRows(rawRowList, headers, status) ==
    IF Len(rawRowList) = 0 THEN uploadRejected /\ UNCHANGED matcherVars
    ELSE IF alreadyStandard(rawRowList[1])
    THEN analysed(normalizeRows(rawRowList), status, "fastPath") /\ UNCHANGED matcherVars
    ELSE /\ rawHeaders' = headers
         /\ detection' = detectColumns(headers)
         /\ uploadDetected(rawRowList, detection', status)

uploadHeaders(grid, idx, headers, status) ==
    uploadRows(rawRowsOf(grid, headers, idx), headers, status)

\* the files uploaded: canonical headers with the AWB in the last column,
\* carrier headers that detectColumns accepts, carrier headers that need the
\* dialog, a title line above the headers, a header line alone
CanonicalHeaderRow ==
    <<K_OrderType, K_BilledWeight, K_ActualWeight, K_BilledZone, K_ActualZone,
      K_TotalBilledAmount, K_AWB>>
CanonicalDataRow == <<V_Prepaid, V_1p5, V_1p5, Cell_A, Cell_A, V_100, V_X1>>
CanonicalShortRow == <<H_Cod, V_1p5, V_1p5, Cell_A, Cell_A, V_45>>
FullDataRow == <<V_X1, V_Prepaid, V_1p5, V_1p5, Cell_A, Cell_A, V_100>>
FullShortRow == <<V_X2, H_Cod, V_1p5, V_1p5, Cell_A, Cell_A>>
ShortDataRow == <<V_X1, V_Prepaid, V_1p5, Cell_A, V_100>>
ShortNoAmountRow == <<V_X1, V_Prepaid, V_1p5, Cell_A>>

UploadGrids ==
    { <<CanonicalHeaderRow, CanonicalDataRow>>,
      <<CanonicalHeaderRow, CanonicalDataRow, CanonicalShortRow>>,
      <<FullHeaderRow, FullDataRow, FullShortRow>>,
      <<Row_Title, FullHeaderRow, FullDataRow>>,
      <<ShortHeaderRow, ShortDataRow>>,
      <<ShortHeaderRow, ShortNoAmountRow>>,
      <<FullHeaderRow, Row_Blank>>,
      <<CanonicalHeaderRow>> }

\* async function handleFileUpload(e) on a file drawn from Grids
handleFileUpload(Grids) ==
    /\ calls < MaxEvents
    /\ \E grid \in Grids, status \in AppStatuses :
          IF Len(grid) < 2 THEN uploadRejected /\ UNCHANGED matcherVars
          ELSE uploadHeaders(grid, findHeaderRow(grid),
                             headersOf(grid[findHeaderRow(grid) + 1]), status)
    /\ calls' = calls + 1
    /\ UNCHANGED <<headerVars, rowVars, regressionVars, writerVars, displayVars>>

HandleFileUpload == handleFileUpload(UploadGrids)

\* the mappings the dialog hands back for the short carrier headers
ShortMapping(awb) ==
    [c \in CanonicalFields |->
        CASE c = "AWB" -> awb
          [] c = "OrderType" -> H_Type
          [] c \in {"BilledWeight", "ActualWeight"} -> H_Weight
          [] c \in {"BilledZone", "ActualZone"} -> H_Zone
          [] c = "TotalBilledAmount" -> H_Amount
          [] OTHER -> Null]

\* the dialog's selects offer the raw headers and "Not Detected"
ConfirmedMappings == { ShortMapping(H_AwbNo), ShortMapping(H_Type), ShortMapping(Null) }

\* ColumnMappingModal: the confirm button is disabled while
\* REQUIRED_CANONICAL.filter((f) => !mapping[f]) is not empty
confirmable(m) ==
    \A k \in 1..Len(REQUIRED_CANONICAL) :
        m[REQUIRED_CANONICAL[k]] # Null /\ m[REQUIRED_CANONICAL[k]] # <<>>

\* handleMappingConfirm without the early return on zero valid rows
confirmFinal_noEarlyReturn(final, status) ==
    /\ pendingDetection' = NullValue
    /\ pendingRawRows' = NullValue
    /\ runAnalysis(final, status)
    /\ pc' = IF Len(final) = 0 THEN "noValidRows" ELSE "confirmed"

\* handleMappingConfirm after applyMapping and normalizeRows
confirmFinal(final, status) ==
    /\ pendingDetection' = NullValue
    /\ pendingRawRows' = NullValue
    /\ IF Len(final) = 0
       THEN /\ pc' = "noValidRows"
            /\ UNCHANGED <<engineVars, lastMappedRows, auditHistory, weightData, historyVars,
                           storeStatus, raised, stored, weightStored, saveLog, weightLog>>
       ELSE runAnalysis(final, status) /\ pc' = "confirmed"

\* function handleMappingConfirm(confirmedMapping); the dialog is rendered
\* while pendingDetection && pendingRawRows
HandleMappingConfirm ==
    /\ calls < MaxEvents
    /\ pendingDetection # NullValue
    /\ pendingRawRows # NullValue
    /\ \E m \in ConfirmedMappings, status \in AppStatuses :
          /\ confirmable(m)
          /\ confirmedMapping' = m
          /\ confirmFinal(normalizeRows(applyMapping(pendingRawRows.val, m)), status)
    /\ calls' = calls + 1
    /\ UNCHANGED <<matcherVars, headerVars, rawRows, mapped, finalRows, regressionVars, writerVars, displayVars>>

\* onClose of the ColumnMappingModal
CloseMapping ==
    /\ calls < MaxEvents
    /\ pendingDetection # NullValue
    /\ pendingRawRows # NullValue
    /\ pendingDetection' = NullValue
    /\ pendingRawRows' = NullValue
    /\ calls' = calls + 1
    /\ pc' = "closed"
    /\ UNCHANGED <<engineVars, matcherVars, headerVars, rowVars, historyVars, stored, weightStored, storeStatus, raised, saveLog, weightLog,
                   regressionVars, writerVars, displayVars, lastMappedRows, auditHistory, weightData>>

\* the rows the PDF preview hands over: keyed by canonical names (with the
\* AWB the extraction could not read as null), or by the carrier's headers
canonicalRow(awb, orderType, amount) ==
    (K_AWB :> awb) @@ (K_OrderType :> Str(orderType)) @@ (K_BilledWeight :> Num((3 * Unit) \div 2))
    @@ (K_ActualWeight :> Num((3 * Unit) \div 2)) @@ (K_BilledZone :> Str(Cell_A))
    @@ (K_ActualZone :> Str(Cell_A)) @@ (K_TotalBilledAmount :> amount)

preview(source, headers, rowList) == [source |-> source, headers |-> headers, rows |-> rowList]

\* the AI extraction names its fields canonically; the text extraction keeps
\* the names printed in the document
PdfPreviews ==
    { preview(source, CanonicalHeaderRow,
              <<canonicalRow(Str(V_X1), V_Prepaid, Num(100 * Unit))>>) :
          source \in {"ai", "text"} }
    \cup
    { preview(source, CanonicalHeaderRow,
              <<canonicalRow(Str(V_X1), V_Prepaid, Num(100 * Unit)),
                canonicalRow(NullValue, H_Cod, Num(45 * Unit))>>) :
          source \in {"ai", "text"} }
    \cup
    { preview("text", FullHeaderRow,
              <<rowObject(FullHeaderRow, FullDataRow), rowObject(FullHeaderRow, FullShortRow)>>),
      preview("text", ShortHeaderRow, <<rowObject(ShortHeaderRow, ShortDataRow)>>) }

\* the mapping dialog is opened from the PDF preview
previewPending(rowList, det) ==
    /\ pendingRawRows' = Pending(rowList)
    /\ pendingDetection' = det
    /\ pc' = "pending"
    /\ UNCHANGED <<engineVars, lastMappedRows, auditHistory, weightData, historyVars,
                   storeStatus, raised, stored, weightStored, saveLog, weightLog>>

previewMapped(rowList, det, final, status) ==
    IF ~det.needsManualReview /\ Len(final) > 0
    THEN analysed(final, status, "autoMapped")
    ELSE previewPending(rowList, det)

previewDetected(rowList, det, status) ==
    previewMapped(rowList, det, normalizeRows(applyMapping(rowList, det.mapping)), status)

\* function handlePdfPreviewConfirm(rows, source); headers is Object.keys(rows[0])
HandlePdfPreviewConfirm ==
    /\ calls < MaxEvents
    /\ \E p \in PdfPreviews, status \in AppStatuses :
          IF p.source = "ai" \/ alreadyStandard(p.rows[1])
          THEN analysed(normalizeRows(p.rows), status, "previewDirect") /\ UNCHANGED matcherVars
          ELSE /\ rawHeaders' = p.headers
               /\ detection' = detectColumns(p.headers)
               /\ previewDetected(p.rows, detection', status)
    /\ calls' = calls + 1
    /\ UNCHANGED <<headerVars, rowVars, regressionVars, writerVars, displayVars>>

InitApp ==
    /\ csvData = <<>>
    /\ contractRules = DelhiveryContract
    /\ analysis = NullValue
    /\ record = NoResult
    /\ stored = NullValue
    /\ weightStored = NullValue
    /\ weightLog = <<>>
    /\ storeStatus = "ok"
    /\ raised = FALSE
    /\ saveLog = <<>>
    /\ calls = 0
    /\ lastMappedRows = <<>>
    /\ pendingRawRows = NullValue
    /\ pendingDetection = NullValue
    /\ auditHistory = loadAuditHistory(stored, storeStatus)
    /\ weightData = loadWeightData(weightStored, storeStatus)
    /\ MatcherIdle /\ HeaderIdle /\ RowsIdle /\ RegressionIdle /\ WritersIdle /\ DisplayIdle
    /\ pc = "ready"

NextApp == HandleFileUpload \/ HandleMappingConfirm \/ CloseMapping \/ HandlePdfPreviewConfirm

SpecApp == InitApp /\ [][NextApp]_vars

\* C26: each audit run appends exactly one AuditRecord to the history (to
\* the in-session list always, to the persisted list when its write
\* succeeds); the record's totalRows, flaggedLineItems, totalBilled and
\* totalOvercharge are those of the run's AnalysisResult, and the
\* AnalysisResult is the engine's result on the run's rows whether or not the
\* record could be saved.
C26_OneRecordPerRun ==
    [][ pc' \in AuditOutcomes =>
            /\ auditHistory' = Append(auditHistory, record')
            /\ record'.totalRows = analysis'.totalRows
            /\ record'.flaggedLineItems = Len(analysis'.discrepancies)
            /\ record'.totalBilled = analysis'.totalBilled
            /\ record'.totalOvercharge = analysis'.totalOvercharge
            /\ analysis' = analyzeInvoice(engineRows(lastMappedRows'), DelhiveryContract)
            /\ saveWrites(storeStatus') => saveLog' = Append(saveLog, record')
            /\ SpecHistoryList' = saveLog' ]_calls

\* a second audit, run while the store was full, was analysed and appended
\* to the in-session history after a first one that was saved
C26_Witness ==
    /\ pc \in AuditOutcomes
    /\ storeStatus = "full"
    /\ Len(auditHistory) = 2
    /\ auditHistory[2] = record
    /\ Len(saveLog) = 1
    /\ Len(analysis.discrepancies) > 0
    /\ record.flaggedLineItems = Len(analysis.discrepancies)

\* what a handler leaves alone when no audit runs: the persisted lists, the
\* in-session lists and the rows of the last audit
SpecNoAudit ==
    /\ stored' = stored /\ weightStored' = weightStored
    /\ auditHistory' = auditHistory /\ weightData' = weightData
    /\ lastMappedRows' = lastMappedRows /\ csvData' = csvData

\* C25: an upload whose detection needs manual review runs no audit and
\* persists nothing, it opens the mapping dialog; the pending rows are
\* audited only by a confirmation whose mapping maps every required field
\* and leaves at least one valid row; closing the dialog drops the pending
\* rows without an audit, and so does a confirmation that leaves no valid row.
C25_ManualReviewGate ==
    [][ /\ pc' = "autoMapped" => ~detection'.needsManualReview
        /\ pc' = "pending" =>
              /\ SpecNoAudit
              /\ pendingRawRows' # NullValue /\ pendingDetection' = detection'
        /\ pc' = "confirmed" =>
              /\ pendingRawRows # NullValue
              /\ confirmable(confirmedMapping')
              /\ lastMappedRows' = normalizeRows(applyMapping(pendingRawRows.val, confirmedMapping'))
              /\ Len(lastMappedRows') > 0
              /\ pendingRawRows' = NullValue /\ pendingDetection' = NullValue
        /\ pc' \in {"closed", "noValidRows"} =>
              /\ SpecNoAudit
              /\ analysis' = analysis
              /\ pendingRawRows # NullValue
              /\ pendingRawRows' = NullValue /\ pendingDetection' = NullValue ]_calls

\* an upload needed manual review and the dialog was closed: nothing has been
\* audited or persisted
C25_Witness ==
    /\ pc = "closed"
    /\ detection.needsManualReview
    /\ pendingRawRows = NullValue /\ pendingDetection = NullValue
    /\ analysis = NullValue
    /\ stored = NullValue /\ weightStored = NullValue
    /\ auditHistory = <<>> /\ lastMappedRows = <<>>

\* C12: on every ingestion path (canonical fast path, auto-accepted mapping,
\* confirmed mapping, PDF preview) each row handed to analyzeInvoice has both
\* an AWB and a TotalBilledAmount that are neither null nor undefined.
C12_MandatoryFieldsPresent ==
    \A i \in 1..Len(lastMappedRows) :
        /\ notNullish(get(lastMappedRows[i], K_AWB))
        /\ notNullish(get(lastMappedRows[i], K_TotalBilledAmount))


\* ---------------------------------------------------------------------------
\* One tab from mount: audit runs and history clears over a store that earlier
\* sessions may have filled up to the cap.

\* export function clearWeightData(): the item in the store afterwards
clearWeightData(item, status) == IF clearRemoves(status) THEN NullValue ELSE item

\* the clear button without its call of clearAuditHistory(): only onClear runs
ClearHistory_sessionOnly ==
    /\ calls < MaxEvents
    /\ \E status \in AppStatuses :
          /\ weightStored' = clearWeightData(weightStored, status)
          /\ weightLog' = IF clearRemoves(status) THEN <<>> ELSE weightLog
          /\ storeStatus' = status
    /\ weightData' = <<>>
    /\ auditHistory' = <<>>
    /\ raised' = FALSE
    /\ calls' = calls + 1
    /\ pc' = "cleared"
    /\ UNCHANGED <<engineVars, matcherVars, headerVars, rowVars, historyVars, regressionVars, writerVars, displayVars,
                   stored, saveLog, lastMappedRows, pendingRawRows, pendingDetection>>

\* onClick={() => { clearAuditHistory(); onClear() }} with
\* onClear = clearWeightData(); setWeightData([]); setAuditHistory([])
ClearHistory ==
    /\ calls < MaxEvents
    /\ \E status \in AppStatuses :
          /\ stored' = clearAuditHistory(stored, status)
          /\ saveLog' = IF clearRemoves(status) THEN <<>> ELSE saveLog
          /\ weightStored' = clearWeightData(weightStored, status)
          /\ weightLog' = IF clearRemoves(status) THEN <<>> ELSE weightLog
          /\ storeStatus' = status
    /\ weightData' = <<>>
    /\ auditHistory' = <<>>
    /\ raised' = FALSE
    /\ calls' = calls + 1
    /\ pc' = "cleared"
    /\ UNCHANGED <<engineVars, matcherVars, headerVars, rowVars, historyVars, regressionVars, writerVars, displayVars,
                   lastMappedRows, pendingRawRows, pendingDetection>>

\* the history found at mount: none, one record below the cap, or at the cap
SessionLengths == {MAX_RECORDS - 1, MAX_RECORDS}

InitSession ==
    /\ csvData = <<>>
    /\ contractRules = DelhiveryContract
    /\ analysis = NullValue
    /\ record = NoResult
    /\ stored \in {NullValue} \cup { stringify(pastRecords(n)) : n \in SessionLengths }
    /\ weightStored = NullValue
    /\ weightLog = <<>>
    /\ storeStatus = "ok"
    /\ raised = FALSE
    /\ saveLog = loadAuditHistory(stored, storeStatus)
    /\ calls = 0
    /\ lastMappedRows = <<>>
    /\ pendingRawRows = NullValue
    /\ pendingDetection = NullValue
    /\ auditHistory = loadAuditHistory(stored, storeStatus)
    /\ weightData = loadWeightData(weightStored, storeStatus)
    /\ MatcherIdle /\ HeaderIdle /\ RowsIdle /\ RegressionIdle /\ WritersIdle /\ DisplayIdle
    /\ pc = "ready"

\* the files of the session: a canonical file, a carrier file whose mapping is
\* accepted automatically, and a file that opens the mapping dialog
SessionGrids ==
    { <<CanonicalHeaderRow, CanonicalDataRow>>,
      <<FullHeaderRow, FullDataRow, FullShortRow>>,
      <<ShortHeaderRow, ShortDataRow>> }

UploadSessionFile == handleFileUpload(SessionGrids)

NextSession == UploadSessionFile \/ CloseMapping \/ ClearHistory

SpecSession == InitSession /\ [][NextSession]_vars

\* the persisted history is the last min(500, n) entries of the in-session list
SpecPersistedMatches == SpecHistoryList = slice(auditHistory, MAX_RECORDS)

\* C29: in one tab, from mount on, every handler whose storage writes succeed
\* keeps the persisted audit history equal to the last min(500, n) entries of
\* the in-session auditHistory list, which an audit run extends by one entry
\* without a cap; a clear empties the persisted history, the persisted weight
\* points and both in-session lists together.
C29_SessionMatchesStore ==
    /\ SpecPersistedMatches
    /\ [][ /\ (storeStatus' = "ok" /\ SpecPersistedMatches) => SpecPersistedMatches'
           /\ pc' \in AuditOutcomes => Len(auditHistory') = Len(auditHistory) + 1
           /\ (pc' = "cleared" /\ storeStatus' = "ok") =>
                 /\ SpecHistoryList' = <<>> /\ SpecWeightList' = <<>>
                 /\ auditHistory' = <<>> /\ weightData' = <<>> ]_calls

\* the tab mounted on a history at the cap and ran two audits whose writes
\* succeeded: the in-session list has 502 entries, the persisted one the last 500
C29_Witness ==
    /\ pc \in AuditOutcomes
    /\ storeStatus = "ok"
    /\ Len(auditHistory) = MAX_RECORDS + 2
    /\ Len(SpecHistoryList) = MAX_RECORDS
    /\ SpecHistoryList = SubSeq(auditHistory, 3, MAX_RECORDS + 2)


\* ---------------------------------------------------------------------------
\* saveAuditRecord in two tabs on the same store.  Within a tab the function
\* runs to completion; between tabs the getItem of one call and its setItem can
\* be separated by the steps of the other tab.

\* the record a tab saves in its k-th call
tabRecord(w, k) ==
    CHOOSE r \in buildAuditRecord(resultOf(<<>>), "Delhivery", "invoice.csv", MAX_RECORDS + k, w) : TRUE

\* const existing = loadAuditHistory()
TabReads ==
    /\ calls < MaxCalls
    /\ \E w \in Writers :
          /\ writers[w].at = "idle"
          /\ writers' = [writers EXCEPT ![w] = [at |-> "read", existing |-> loadAuditHistory(stored, "ok")]]
    /\ calls' = calls + 1
    /\ raised' = FALSE
    /\ pc' = "read"
    /\ UNCHANGED <<engineVars, matcherVars, headerVars, rowVars, regressionVars, appVars, displayVars,
                   record, stored, weightStored, storeStatus, saveLog, weightLog>>

\* the write of a tab that leaves out the records it read
tabWrite_recordOnly(item, existing, rec, status) ==
    IF saveWrites(status) THEN stringify(<<rec>>) ELSE item

\* existing.push(record); localStorage.setItem(STORAGE_KEY,
\* JSON.stringify(existing.slice(-MAX_RECORDS))), inside try { } catch { }
tabWrite(item, existing, rec, status) ==
    IF saveWrites(status) THEN stringify(trimmedHistory(existing, rec)) ELSE item

TabWrites ==
    /\ \E w \in Writers, status \in AppStatuses :
          /\ writers[w].at = "read"
          /\ record' = tabRecord(w, calls)
          /\ stored' = tabWrite(stored, writers[w].existing, record', status)
          /\ saveLog' = IF saveWrites(status) THEN Append(saveLog, record') ELSE saveLog
          /\ raised' = saveAuditRecordRaises(status)
          /\ storeStatus' = status
          /\ writers' = [writers EXCEPT ![w].at = "idle"]
    /\ pc' = "written"
    /\ UNCHANGED <<engineVars, matcherVars, headerVars, rowVars, regressionVars, appVars, displayVars,
                   weightStored, weightLog, calls>>

InitTabs ==
    /\ stored \in {NullValue} \cup { stringify(pastRecords(n)) : n \in InitialLengths }
    /\ saveLog = <<>>
    /\ record = NoResult
    /\ weightStored = NullValue
    /\ weightLog = <<>>
    /\ storeStatus = "ok"
    /\ raised = FALSE
    /\ calls = 0
    /\ writers = NoWriters
    /\ EngineIdle /\ MatcherIdle /\ HeaderIdle /\ RowsIdle /\ RegressionIdle /\ AppIdle /\ DisplayIdle
    /\ pc = "ready"

NextTabs == TabReads \/ TabWrites

SpecTabs == InitTabs /\ [][NextTabs]_vars

\* the tab whose setItem has just succeeded, if any
SpecLastWriter(w) == writers[w].at = "read" /\ writers'[w].at = "idle" /\ storeStatus' = "ok"

\* C21 as stated: after a write the persisted history is the writer's read
\* snapshot followed by its own record.
C21_SnapshotPlusRecord ==
    [][ \A w \in Writers :
           SpecLastWriter(w) => SpecHistoryList' = Append(writers[w].existing, record') ]_writers

\* C21: when two tabs interleave the read and the write of saveAuditRecord, no
\* call raises, the cap of 500 records holds in every state, and each write
\* that succeeds leaves exactly the last 500 entries of the writer's read
\* snapshot followed by its own record, whatever the other tab wrote meanwhile.
C21_LaterWriteWins ==
    /\ [](~raised /\ Len(SpecHistoryList) <= MAX_RECORDS)
    /\ [][ \A w \in Writers :
              SpecLastWriter(w) =>
                  SpecHistoryList' = slice(Append(writers[w].existing, record'), MAX_RECORDS) ]_writers

\* both tabs read the one-record history, both wrote: the store holds two
\* records although two were added to one, the first writer's record is lost
C21_Witness ==
    /\ pc = "written"
    /\ Len(saveLog) = 2
    /\ Len(SpecHistoryList) = 2
    /\ SpecHistoryList[2] = saveLog[2]
    /\ \A k \in 1..2 : SpecHistoryList[k] # saveLog[1]
    /\ \A w \in Writers : writers[w].at = "idle"


\* ---------------------------------------------------------------------------
\* sampleForDisplay (lib/csv-normalizer.ts) and the card that calls it.
\* points.length / maxN and i * step are operations on binary64 numbers: a
\* positive number is held as its integer part and the bits of its fraction,
\* and each operation rounds its exact result to 53 significant bits, ties to
\* the even neighbour.

\* the number of bits of the integer n >= 0
RECURSIVE bitLength(_)
bitLength(n) == IF n = 0 THEN 0 ELSE 1 + bitLength(n \div 2)

\* the first n bits of the fraction r / d (r < d), then whether the rest is 0
\* (the test on r and acc has them computed before the next pass)
RECURSIVE fractionOf(_, _, _, _)
fractionOf(r, d, n, acc) ==
    IF n = 0 \/ r + Len(acc) < 0 THEN [bits |-> acc, exact |-> r = 0]
    ELSE fractionOf((2 * r) % d, d, n - 1, Append(acc, (2 * r) \div d))

\* whether one of bits[from..] is set
anySet(bits, from) == \E j \in from..Len(bits) : bits[j] = 1

\* bits plus one unit in the last place; the caller handles the carry out
addUlp(bits, zeroAt) ==
    [j \in 1..Len(bits) |-> IF j < zeroAt THEN bits[j] ELSE IF j = zeroAt THEN 1 ELSE 0]
lastZero(bits) ==
    IF \A j \in 1..Len(bits) : bits[j] = 1 THEN 0
    ELSE CHOOSE j \in 1..Len(bits) : bits[j] = 0 /\ \A h \in (j + 1)..Len(bits) : bits[h] = 1

\* the number int + 0.kept raised by one unit in the last place
nextUp(int, kept) ==
    IF lastZero(kept) = 0 THEN [int |-> int + 1, bits |-> [j \in 1..Len(kept) |-> 0]]
    ELSE [int |-> int, bits |-> addUlp(kept, lastZero(kept))]

\* round-to-nearest, ties to even, of int + 0.bits (+ a non-zero rest when
\* ~exact) to keep fraction bits; keep < Len(bits)
roundTo(int, bits, exact, keep) ==
    IF bits[keep + 1] = 1
       /\ ( anySet(bits, keep + 2) \/ ~exact
            \/ (IF keep = 0 THEN int % 2 = 1 ELSE bits[keep] = 1) )
    THEN nextUp(int, SubSeq(bits, 1, keep))
    ELSE [int |-> int, bits |-> SubSeq(bits, 1, keep)]

\* the binary64 quotient a / b of two positive integers with a >= b; a
\* binary64 number has 53 significant bits
quotientBits(a, b, keep) ==
    roundTo(a \div b, fractionOf(a % b, b, keep + 1, <<>>).bits,
            fractionOf(a % b, b, keep + 1, <<>>).exact, keep)
quotient(a, b) == quotientBits(a, b, 53 - bitLength(a \div b))

\* the exact product of the integer i and 0.bits, from the last bit on:
\* carry is what the bits after j hand to bit j
RECURSIVE timesFraction(_, _, _, _, _)
timesFraction(i, bits, j, carry, acc) ==
    IF j = 0 \/ carry + Len(acc) < 0 THEN [int |-> carry, bits |-> acc]
    ELSE timesFraction(i, bits, j - 1, (i * bits[j] + carry) \div 2,
                       <<(i * bits[j] + carry) % 2>> \o acc)

\* the number of zero bits before the first set bit
leadingZeros(bits) ==
    IF \A j \in 1..Len(bits) : bits[j] = 0 THEN Len(bits)
    ELSE (CHOOSE j \in 1..Len(bits) : bits[j] = 1 /\ \A h \in 1..(j - 1) : bits[h] = 0) - 1

\* the fraction bits a binary64 number of this size keeps
keptBits(int, bits) ==
    IF int > 0 THEN 53 - bitLength(int) ELSE leadingZeros(bits) + 53

\* int + 0.bits (+ a non-zero rest when ~exact) rounded to binary64; a value
\* that fits into the significand is kept as it is
roundedAt(int, bits, exact, keep) ==
    IF keep >= Len(bits) THEN [int |-> int, bits |-> bits]
    ELSE roundTo(int, bits, exact, keep)
rounded(int, bits, exact) == roundedAt(int, bits, exact, keptBits(int, bits))

productOf(i, x, fraction) == rounded(i * x.int + fraction.int, fraction.bits, TRUE)
\* i * x for an integer i >= 0 and a binary64 x >= 0
times(i, x) == productOf(i, x, timesFraction(i, x.bits, Len(x.bits), 0, <<>>))

\* Math.floor of a positive binary64 number
MathFloor(x) == x.int

\* for (let i = 0; i < maxN; i++) sampled.push(points[Math.floor(i * step)])
sampled(points, n, step) ==
    [k \in 1..n |-> points[MathFloor(times(k - 1, step)) + 1]]

\* mutant of sampleForDisplay: the first maxN points
sampleForDisplay_firstPoints(points, n) ==
    IF Len(points) <= n THEN points ELSE SubSeq(points, 1, n)
\* export function sampleForDisplay(points, maxN = MAX_DISPLAY_POINTS)
sampleForDisplay(points, n) ==
    IF Len(points) <= n THEN points
    ELSE sampled(points, n, quotient(Len(points), n))


\* the points of one provider: two declared weights in turn, on the line
\* billed = 1.1 * declared, the k-th point dated k
providerPoints(n) ==
    [k \in 1..n |-> WeightDataPoint("Delhivery", "P", 10 * (1 + (k % 2)), 11 * (1 + (k % 2)), k)]

MaxPoints == 30   \* every length up to MaxPoints is tried
\* further lengths: around the default maxN, and lengths with a product
\* i * length that is a multiple of maxN (122 for 14; 316, 325, 339 for 300)
DisplayLengths ==
    (0..MaxPoints) \cup {122, MAX_DISPLAY_POINTS - 1, MAX_DISPLAY_POINTS, MAX_DISPLAY_POINTS + 1,
                         316, 325, 339}
DisplaySizes == {1, 2, 3, 7, 14, MAX_DISPLAY_POINTS}

\* sampleForDisplay(points, maxN) called on its own
SampleForDisplay ==
    /\ pc = "ready"
    /\ \E n \in DisplaySizes :
          /\ maxN' = n
          /\ displayPoints' = sampleForDisplay(regressionPoints, n)
    /\ pc' = "sampled"
    /\ UNCHANGED <<regressionPoints, regression, engineVars, matcherVars, headerVars, rowVars,
                   historyVars, storeVars, appVars, writerVars>>

\* function ProviderRegressionCard({ provider, points })
ProviderRegressionCard ==
    /\ pc = "ready"
    /\ regression' = runRegression(regressionPoints)
    /\ maxN' = MAX_DISPLAY_POINTS
    /\ displayPoints' = sampleForDisplay(regressionPoints, maxN')
    /\ pc' = "card"
    /\ UNCHANGED <<regressionPoints, engineVars, matcherVars, headerVars, rowVars,
                   historyVars, storeVars, appVars, writerVars>>

InitDisplay ==
    /\ regressionPoints \in { providerPoints(n) : n \in DisplayLengths }
    /\ regression = NoResult
    /\ EngineIdle /\ MatcherIdle /\ HeaderIdle /\ RowsIdle /\ HistoryIdle /\ StoreIdle /\ AppIdle
    /\ WritersIdle /\ DisplayIdle
    /\ pc = "ready"

NextDisplay == SampleForDisplay \/ ProviderRegressionCard

SpecDisplay == InitDisplay /\ [][NextDisplay]_vars

\* the index in the input of the k-th returned point (points are dated by index)
SpecIndex(k) == displayPoints[k].date - 1
\* floor((k - 1) * length / maxN) in exact arithmetic
SpecExactIndex(k) == ((k - 1) * Len(regressionPoints)) \div maxN
SpecSampledCase == pc \in {"sampled", "card"} /\ Len(regressionPoints) > maxN
SpecUnsampledCase == pc \in {"sampled", "card"} /\ Len(regressionPoints) <= maxN
\* what the claim says besides the formula of the indices
SpecSamplerFrame ==
    /\ SpecUnsampledCase => displayPoints = regressionPoints
    /\ SpecSampledCase =>
          /\ Len(displayPoints) = maxN
          /\ SpecIndex(1) = 0
          /\ \A k \in 1..maxN : displayPoints[k] = regressionPoints[SpecIndex(k) + 1]
          /\ \A k \in 2..maxN : SpecIndex(k - 1) < SpecIndex(k)
    /\ pc = "card" => regression = runRegression(regressionPoints) /\ maxN = MAX_DISPLAY_POINTS

\* C27 as stated: the returned points are taken at the indices
\* floor(i * length / maxN).
C27_ExactIndices ==
    /\ SpecSamplerFrame
    /\ SpecSampledCase => \A k \in 1..maxN : SpecIndex(k) = SpecExactIndex(k)

\* C27: sampleForDisplay returns its input when it has at most maxN points;
\* otherwise it returns maxN points in their original order, at strictly
\* increasing indices that start with 0, the index for i being
\* floor(i * length / maxN), or one less than that when i * length is a
\* multiple of maxN; the card runs the regression on the full list.
C27_EvenSample ==
    /\ SpecSamplerFrame
    /\ SpecSampledCase =>
          \A k \in 1..maxN :
             \/ SpecIndex(k) = SpecExactIndex(k)
             \/ /\ SpecIndex(k) = SpecExactIndex(k) - 1
                /\ ((k - 1) * Len(regressionPoints)) % maxN = 0

\* the card of a provider with 316 points: 300 are shown, the 76th of them is
\* the point of index 78 where 75 * 316 / 300 = 79, and the regression has
\* counted all 316
C27_Witness ==
    /\ pc = "card"
    /\ Len(regressionPoints) = 316
    /\ Len(displayPoints) = MAX_DISPLAY_POINTS
    /\ SpecIndex(76) = 78
    /\ regression # NullValue
    /\ regression.pointCount = 316


\* ---------------------------------------------------------------------------
\* analyzeInvoice on binary64 numbers.  The fields of a row are decimal
\* numerals with two places (weights in hundredths of a kilogram, amounts in
\* paise); Number() makes each the nearest binary64 number, and every product,
\* quotient, sum and difference of the function is rounded again.

\* bits lengthened to n places
padded(bits, n) == [j \in 1..n |-> IF j <= Len(bits) THEN bits[j] ELSE 0]
longer(x, y) == IF Len(x.bits) >= Len(y.bits) THEN Len(x.bits) ELSE Len(y.bits)

\* x / d for an integer d >= 1, by long division; n bits are produced
RECURSIVE dividedBits(_, _, _, _, _, _)
dividedBits(bits, d, r, j, n, acc) ==
    IF j > n \/ r + Len(acc) < 0 THEN [bits |-> acc, exact |-> r = 0]
    ELSE dividedBits(bits, d, (2 * r + (IF j <= Len(bits) THEN bits[j] ELSE 0)) % d, j + 1, n,
                     Append(acc, (2 * r + (IF j <= Len(bits) THEN bits[j] ELSE 0)) \div d))
dividedRounded(int, q) == rounded(int, q.bits, q.exact)
dividedBy(x, d) ==
    dividedRounded(x.int \div d, dividedBits(x.bits, d, x.int % d, 1, Len(x.bits) + 64, <<>>))

\* Number("n.dd"): the binary64 number nearest to hundredths / 100
fromHundredths(hundredths) == dividedBy([int |-> hundredths, bits |-> <<>>], 100)
One == [int |-> 1, bits |-> <<>>]
Zero == [int |-> 0, bits |-> <<>>]

\* the exact sum of the fractions, from the last bit on
RECURSIVE addedBits(_, _, _, _, _)
addedBits(xb, yb, j, carry, acc) ==
    IF j = 0 \/ carry + Len(acc) < 0 THEN [int |-> carry, bits |-> acc]
    ELSE addedBits(xb, yb, j - 1, (xb[j] + yb[j] + carry) \div 2,
                   <<(xb[j] + yb[j] + carry) % 2>> \o acc)
plusOf(x, y, fraction) == rounded(x.int + y.int + fraction.int, fraction.bits, TRUE)
\* x + y
plus(x, y) ==
    plusOf(x, y, addedBits(padded(x.bits, longer(x, y)), padded(y.bits, longer(x, y)),
                           longer(x, y), 0, <<>>))

\* the exact difference of the fractions; int is the borrow
RECURSIVE subtractedBits(_, _, _, _, _)
subtractedBits(xb, yb, j, borrow, acc) ==
    IF j = 0 \/ borrow + Len(acc) < 0 THEN [int |-> borrow, bits |-> acc]
    ELSE subtractedBits(xb, yb, j - 1, IF xb[j] - yb[j] - borrow < 0 THEN 1 ELSE 0,
                        <<(xb[j] - yb[j] - borrow + 2) % 2>> \o acc)
minusOf(x, y, fraction) == rounded(x.int - y.int - fraction.int, fraction.bits, TRUE)
\* x - y for x >= y
minus(x, y) ==
    minusOf(x, y, subtractedBits(padded(x.bits, longer(x, y)), padded(y.bits, longer(x, y)),
                                 longer(x, y), 0, <<>>))

\* x > y
greaterBits(xb, yb) ==
    \E j \in 1..Len(xb) : xb[j] = 1 /\ yb[j] = 0 /\ \A h \in 1..(j - 1) : xb[h] = yb[h]
greater(x, y) ==
    \/ x.int > y.int
    \/ x.int = y.int /\ greaterBits(padded(x.bits, longer(x, y)), padded(y.bits, longer(x, y)))

\* x / 2, exact
halved(x) == [int |-> x.int \div 2, bits |-> <<x.int % 2>> \o x.bits]

\* Number(x.toFixed(2)) in paise: the integer nearest to 100 * x, a half
\* rounded up, taken from the exact product
nearestInteger(p) == p.int + (IF Len(p.bits) > 0 /\ p.bits[1] = 1 THEN 1 ELSE 0)
toFixedPaise(x) ==
    nearestInteger([int  |-> 100 * x.int + timesFraction(100, x.bits, Len(x.bits), 0, <<>>).int,
                    bits |-> timesFraction(100, x.bits, Len(x.bits), 0, <<>>).bits])

\* const expectedFreight = baseRate * billedWeight
expectedFreight64(row, contract) ==
    times(baseRate(row, contract), fromHundredths(row.BilledWeight))

\* (expectedFreight * contractRules.cod_fee_percentage) / 100 for the fee of
\* 1.5 per cent: 1.5 is 3 / 2, so the product is 3 * x rounded, halved
codFee64(freight) == dividedBy(halved(times(3, freight)), 100)

\* expectedTotal, given the expected freight
expectedTotal64(row, freight) ==
    IF row.OrderType = "COD" THEN plus(freight, codFee64(freight)) ELSE freight

\* if (difference <= 1) continue, given totalBilledAmount and expectedTotal:
\* a difference that is not positive is not above 1
flagged64(amount, total) == greater(amount, total) /\ greater(minus(amount, total), One)

\* totalBilledAmount > expectedFreight + 1
aboveFreight64(amount, freight) == greater(amount, plus(freight, One))

\* the reasons list of one flagged row
reasons64(row, amount, freight) ==
    LET r1 == IF row.BilledZone # row.ActualZone THEN <<ZoneMismatch>> ELSE <<>>
        r2 == IF row.BilledWeight > row.ActualWeight
              THEN Append(r1, WeightOvercharge) ELSE r1
        r3 == IF row.OrderType = "Prepaid" /\ aboveFreight64(amount, freight)
              THEN Append(r2, InvalidCODCharge) ELSE r2
    IN  IF Len(r3) = 0 THEN <<RateOvercharge>> ELSE r3

\* the Discrepancy pushed for one flagged row; the amounts in paise
discrepancy64(row, amount, freight, total) ==
    [ awb_number     |-> row.AWB,
      issue_type     |-> join(reasons64(row, amount, freight), CommaSpace),
      billed_amount  |-> row.TotalBilledAmount,
      correct_amount |-> toFixedPaise(total),
      difference     |-> toFixedPaise(minus(amount, total)) ]

\* one pass of the loop of analyzeInvoice: the discrepancies after the row
pushed64(list, row, amount, freight, total) ==
    IF flagged64(amount, total) THEN Append(list, discrepancy64(row, amount, freight, total))
    ELSE list
afterRow64(list, row, freight) ==
    pushed64(list, row, fromHundredths(row.TotalBilledAmount), freight,
             expectedTotal64(row, freight))
RECURSIVE loopDiscrepancies64(_, _, _)
loopDiscrepancies64(data, contract, n) ==
    IF n = 0 THEN <<>>
    ELSE afterRow64(loopDiscrepancies64(data, contract, n - 1), data[n],
                    expectedFreight64(data[n], contract))

\* totalBilled += totalBilledAmount
RECURSIVE loopTotalBilled64(_, _)
loopTotalBilled64(data, n) ==
    IF n = 0 THEN Zero
    ELSE plus(loopTotalBilled64(data, n - 1), fromHundredths(data[n].TotalBilledAmount))

\* discrepancies.reduce((sum, d) => sum + d.difference, 0)
RECURSIVE reduceDifference64(_, _)
reduceDifference64(ds, n) ==
    IF n = 0 THEN Zero
    ELSE plus(reduceDifference64(ds, n - 1), fromHundredths(ds[n].difference))

\* the AnalysisResult, given the discrepancies; the amounts in paise
result64(data, discrepancies) ==
    [ discrepancies   |-> discrepancies,
      totalOvercharge |-> toFixedPaise(reduceDifference64(discrepancies, Len(discrepancies))),
      totalRows       |-> Len(data),
      totalBilled     |-> toFixedPaise(loopTotalBilled64(data, Len(data))) ]

\* export function analyzeInvoice(csvData, contractRules) on binary64 numbers
analyzeInvoice64(data, contract) ==
    result64(data, loopDiscrepancies64(data, contract, Len(data)))


\* Input rows, weights in hundredths of a kilogram and amounts in paise: the
\* tolerance boundary of zone A at 1 kg (41.00 / 41.01 Prepaid, 41.60 / 41.61
\* COD), Prepaid rows billed exactly 1.00 above a freight of 255.60 (6.39 kg)
\* and of 1.20 (0.03 kg), rows with a zone or weight mismatch, an order type
\* that is neither Prepaid nor COD, and rows whose ActualZone is not a key of
\* ZONE_RATE_MAP: another letter, a lower-case letter and a missing field,
\* billed 1.00, 1.01 and 101.00.
BoundaryRows64 ==
    { Row("P1", "Prepaid", 100, 100, "A", "A", 4100),
      Row("P2", "Prepaid", 100, 100, "A", "A", 4101),
      Row("P3", "Prepaid", 639, 639, "A", "A", 25660),
      Row("P4", "Prepaid", 3, 3, "A", "A", 220),
      Row("P5", "Prepaid", 100, 50, "B", "A", 4500),
      Row("C1", "COD", 100, 100, "A", "A", 4160),
      Row("C2", "COD", 100, 100, "A", "A", 4161),
      Row("C3", "COD", 100, 50, "A", "A", 5000),
      Row("R1", "RTO", 100, 100, "A", "A", 4500) }

OtherZones == {"Z", "a", "undefined"}

OtherZoneRows64 ==
    { Row(az, "Prepaid", 100, 100, az, az, 100) : az \in OtherZones }
    \cup { Row("Y1", "Prepaid", 100, 100, "Z", "Z", 101),
           Row("Y2", "Prepaid", 100, 100, "a", "a", 101),
           Row("Y3", "Prepaid", 100, 100, "undefined", "undefined", 101),
           Row("Z1", "COD", 100, 100, "A", "Z", 10100),
           Row("Z2", "COD", 100, 100, "Z", "Z", 100) }

Rows64 == BoundaryRows64 \cup OtherZoneRows64

AnalyzeInvoice64 ==
    /\ pc = "ready"
    /\ analysis' = analyzeInvoice64(csvData, contractRules)
    /\ pc' = "done"
    /\ UNCHANGED <<csvData, contractRules, matcherVars, headerVars, rowVars, historyVars, storeVars,
                   regressionVars, writerVars, displayVars, appVars>>

InitEngine64 ==
    /\ csvData \in SeqsUpTo(Rows64, MaxRows)
    /\ contractRules = DelhiveryContract
    /\ analysis = NoResult
    /\ MatcherIdle /\ HeaderIdle /\ RowsIdle /\ HistoryIdle /\ StoreIdle /\ RegressionIdle
    /\ WritersIdle /\ DisplayIdle /\ AppIdle
    /\ pc = "ready"

NextEngine64 == AnalyzeInvoice64

SpecEngine64 == InitEngine64 /\ [][NextEngine64]_vars

\* the input row of a discrepancy (the AWBs of Rows64 are distinct)
SpecRowOf(d) == CHOOSE row \in Rows64 : row.AWB = d.awb_number
\* the issue types that carry the label "Invalid COD Charge"
SpecCodIssueTypes ==
    { join(labels, CommaSpace) :
        labels \in { <<InvalidCODCharge>>, <<ZoneMismatch, InvalidCODCharge>>,
                     <<WeightOvercharge, InvalidCODCharge>>,
                     <<ZoneMismatch, WeightOvercharge, InvalidCODCharge>> } }

\* C28: every Discrepancy of a Prepaid row carries the label "Invalid COD
\* Charge"; "Rate Overcharge" is emitted only for rows that are not Prepaid,
\* whose BilledZone equals ActualZone and whose BilledWeight is not greater
\* than ActualWeight.
C28_PrepaidAlwaysLabelled ==
    pc = "done" =>
        \A i \in 1..Len(analysis.discrepancies) :
            /\ SpecRowOf(analysis.discrepancies[i]).OrderType = "Prepaid"
                  => analysis.discrepancies[i].issue_type \in SpecCodIssueTypes
            /\ analysis.discrepancies[i].issue_type = RateOvercharge
                  => /\ SpecRowOf(analysis.discrepancies[i]).OrderType # "Prepaid"
                     /\ SpecRowOf(analysis.discrepancies[i]).BilledZone
                           = SpecRowOf(analysis.discrepancies[i]).ActualZone
                     /\ SpecRowOf(analysis.discrepancies[i]).BilledWeight
                           <= SpecRowOf(analysis.discrepancies[i]).ActualWeight

\* the rows of csvData whose ActualZone is not a key of ZONE_RATE_MAP
SpecOtherZoneRows ==
    { csvData[i] : i \in { k \in 1..Len(csvData) : csvData[k].ActualZone \notin {"A", "B", "C"} } }
SpecDiscrepanciesOf(row) ==
    { i \in 1..Len(analysis.discrepancies) : analysis.discrepancies[i].awb_number = row.AWB }

====
